---- MODULE Spec2Model ----
(***************************************************************************)
(* A model of util/cffdump.c: the PM4 command-stream decoder.              *)
(*                                                                         *)
(* A 32-bit dword is the pair <<hi, lo>> of its two 16-bit halves, so that *)
(* headers such as 0xC0000000 keep their full width.  Host pointers, GPU   *)
(* addresses and lengths are byte counts, as in the C code.                *)
(***************************************************************************)
EXTENDS Integers, Sequences, FiniteSets, TLC

VARIABLES
    hdr, kind,                 \* classifier harness: a header and its class
    rq,                        \* resolver harness: the last lookup made
    vsc_pipe_data,             \* static struct { config, address, length } vsc_pipe_data[7]
    vfd_fetch_state,           \* static vfd_fetch_state_t vfd_fetch_state[0xf]
    gpuaddr_lo,                \* uint32_t gpuaddr_lo
    fx,                        \* handler harness: the last handler call and what it dumped
    buffers, nbuffers,         \* struct buffer buffers[]; int nbuffers
    mem,                       \* host memory: byte address -> dword, as far as read
    nalloc,                    \* number of malloc()ed section buffers so far
    gpu_id, type0_reg,         \* generation id; the selected special-register table
    needs_wfi,                 \* static bool needs_wfi
    cfg,                       \* the run's options and the class of its input
    type0_reg_vals,            \* register index -> last value (zero where absent)
    type0_reg_written,         \* set of indices whose "written" bit is set
    type0_reg_rewritten,       \* set of indices whose "written since draw" bit is set
    lastvals,                  \* register index -> value at the last summary
    draws, ib,                 \* static int draws[3]; static int ib
    draw_count, current_draw_count, vertices,
    stack,                     \* the active dump_commands() calls, innermost last
    pc,                        \* "idle", "file", "decode" or "aborted"
    nfiles, got_gpu_id, submit,    \* handle_file()
    needs_reset,               \* the values bool needs_reset can hold: it starts uninitialised
    npkts,                     \* packets read from memory not read before
    op,                        \* the handler the last step ran
    lastq,                     \* history: the most recent evaluation of the query list
    out                        \* what the last step printed

(***************************************************************************)
(* 32-bit words.                                                           *)
(***************************************************************************)
Pow2(n) == 2 ^ n

Hi(w) == w[1]

Lo(w) == w[2]

\* a small natural as a dword
U32(n) == <<n \div 65536, n % 65536>>

\* (w >> sh) & (2^n - 1), for fields of at most 30 bits
Bits(w, sh, n) ==
    IF sh >= 16 THEN (Hi(w) \div Pow2(sh - 16)) % Pow2(n)
    ELSE IF sh + n <= 16 THEN (Lo(w) \div Pow2(sh)) % Pow2(n)
    ELSE (Lo(w) \div Pow2(sh)) + Pow2(16 - sh) * (Hi(w) % Pow2(sh + n - 16))

RECURSIVE BitAnd(_, _)
BitAnd(a, b) ==
    IF a = 0 \/ b = 0 THEN 0
    ELSE (a % 2) * (b % 2) + 2 * BitAnd(a \div 2, b \div 2)

RECURSIVE BitXor(_, _)
BitXor(a, b) ==
    IF a = 0 THEN b
    ELSE IF b = 0 THEN a
    ELSE ((a + b) % 2) + 2 * BitXor(a \div 2, b \div 2)

\* w & m on dwords
RECURSIVE BitOr(_, _)
BitOr(a, b) ==
    IF a = 0 THEN b
    ELSE IF b = 0 THEN a
    ELSE (IF (a % 2) + (b % 2) > 0 THEN 1 ELSE 0) + 2 * BitOr(a \div 2, b \div 2)

Or32(w, m) == <<BitOr(Hi(w), Hi(m)), BitOr(Lo(w), Lo(m))>>

And32(w, m) == <<BitAnd(Hi(w), Hi(m)), BitAnd(Lo(w), Lo(m))>>

\* a + b on uint32_t
Add32(a, b) ==
    <<(Hi(a) + Hi(b) + ((Lo(a) + Lo(b)) \div 65536)) % 65536, (Lo(a) + Lo(b)) % 65536>>

(***************************************************************************)
(* Packet headers (cffdump.c 1962-2007).                                   *)
(***************************************************************************)
CP_TYPE0_PKT == <<0, 0>>

CP_TYPE2_PKT == <<\h8000, 0>>

CP_TYPE3_PKT == <<\hC000, 0>>

CP_TYPE4_PKT == <<\h4000, 0>>

CP_TYPE7_PKT == <<\h7000, 0>>

\* the mutant: the fold stops at bit 15, so the high bits of a 19-bit
\* register offset are left out of the parity
pm4_calc_odd_parity_bit_low16(val) ==
    LET nib == BitAnd(15,
                 BitXor(val, BitXor(val \div 16, BitXor(val \div 256, val \div 4096))))
    IN  (\h9669 \div Pow2(nib)) % 2

pm4_calc_odd_parity_bit(val) ==
    LET nib == BitAnd(15,
                 BitXor(val, BitXor(val \div Pow2(4), BitXor(val \div Pow2(8),
                   BitXor(val \div Pow2(12), BitXor(val \div Pow2(16),
                     BitXor(val \div Pow2(20), BitXor(val \div Pow2(24),
                       val \div Pow2(28)))))))))
    IN  (\h9669 \div Pow2(nib)) % 2

\* the mutant: the test looks at bit 31 only, so the type4 and type7 tags
\* pass it as well
pkt_is_type0_bit31(pkt) == And32(pkt, <<\h8000, 0>>) = CP_TYPE0_PKT

pkt_is_type0(pkt) == And32(pkt, <<\hC000, 0>>) = CP_TYPE0_PKT

type0_pkt_size(pkt) == Bits(pkt, 16, 14) + 1

type0_pkt_offset(pkt) == Bits(pkt, 0, 15)

pkt_is_type2(pkt) == pkt = CP_TYPE2_PKT

pkt_is_type3(pkt) ==
    /\ And32(pkt, <<\hC000, 0>>) = CP_TYPE3_PKT
    /\ And32(pkt, <<0, \h80FE>>) = <<0, 0>>

cp_type3_opcode(pkt) == Bits(pkt, 8, 8)

type3_pkt_size(pkt) == Bits(pkt, 16, 14) + 1

type4_pkt_offset(pkt) == Bits(pkt, 8, 19)

type4_pkt_size(pkt) == Bits(pkt, 0, 7)

pkt_is_type4(pkt) ==
    /\ And32(pkt, <<\hF000, 0>>) = CP_TYPE4_PKT
    /\ Bits(pkt, 27, 1) = pm4_calc_odd_parity_bit(type4_pkt_offset(pkt))
    /\ Bits(pkt, 7, 1) = pm4_calc_odd_parity_bit(type4_pkt_size(pkt))

cp_type7_opcode(pkt) == Bits(pkt, 16, 7)

type7_pkt_size(pkt) == Bits(pkt, 0, 14)

pkt_is_type7(pkt) ==
    /\ And32(pkt, <<\hF000, 0>>) = CP_TYPE7_PKT
    /\ And32(pkt, <<\h0F00, 0>>) = <<0, 0>>
    /\ Bits(pkt, 23, 1) = pm4_calc_odd_parity_bit(cp_type7_opcode(pkt))
    /\ Bits(pkt, 15, 1) = pm4_calc_odd_parity_bit(type7_pkt_size(pkt))

\* the if / else-if chain of dump_commands, in its order
Classify(pkt) ==
    IF pkt_is_type0(pkt) THEN "type0"
    ELSE IF pkt_is_type4(pkt) THEN "type4"
    ELSE IF pkt_is_type3(pkt) THEN "type3"
    ELSE IF pkt_is_type7(pkt) THEN "type7"
    ELSE IF pkt_is_type2(pkt) THEN "type2"
    ELSE "bad"

(***************************************************************************)
(* The address space resolver (cffdump.c 207-267).                         *)
(***************************************************************************)
NoBuffer == [hostptr |-> 0, len |-> 0, gpuaddr |-> 0]

buffer_contains_gpuaddr(buf, gpuaddr) ==
    (buf.gpuaddr <= gpuaddr) /\ (gpuaddr < buf.gpuaddr + buf.len)

buffer_contains_hostptr(buf, hostptr) ==
    (buf.hostptr <= hostptr) /\ (hostptr < buf.hostptr + buf.len)

\* the index at which "for (i = 0; i < nbuffers; i++) if (contains) return"
\* stops, or n when the loop runs to its end
RECURSIVE FirstGpuFrom(_, _, _, _)
FirstGpuFrom(bufs, n, ga, i) ==
    IF i >= n THEN n
    ELSE IF buffer_contains_gpuaddr(bufs[i], ga) THEN i
    ELSE FirstGpuFrom(bufs, n, ga, i + 1)

RECURSIVE FirstHostFrom(_, _, _, _)
FirstHostFrom(bufs, n, p, i) ==
    IF i >= n THEN n
    ELSE IF buffer_contains_hostptr(bufs[i], p) THEN i
    ELSE FirstHostFrom(bufs, n, p, i + 1)

\* the mutant of FirstGpu: the scan keeps the last hit, so a later region
\* shadows an earlier one
FirstGpuShadowed(ga) ==
    LET hits == {i \in 0..(nbuffers - 1) : buffer_contains_gpuaddr(buffers[i], ga)}
    IN  IF hits = {} THEN nbuffers ELSE CHOOSE i \in hits : \A j \in hits : j <= i

\* the mutant of FirstGpu: the scan stops at its first region whether or not
\* the region contains the address
FirstGpuAny(ga) == 0

FirstGpu(ga) == FirstGpuFrom(buffers, nbuffers, ga, 0)

gpuaddr(p) ==
    LET i == FirstHostFrom(buffers, nbuffers, p, 0)
    IN  IF i < nbuffers THEN buffers[i].gpuaddr + (p - buffers[i].hostptr) ELSE 0

gpubaseaddr(ga) ==
    LET i == FirstGpu(ga)
    IN  IF ga = 0 THEN 0
        ELSE IF i < nbuffers THEN buffers[i].gpuaddr ELSE 0

\* the mutant of hostptr: the "if (!gpuaddr) return 0" test is left out
hostptr_nozero(ga) ==
    LET i == FirstGpu(ga)
    IN  IF i < nbuffers THEN buffers[i].hostptr + (ga - buffers[i].gpuaddr) ELSE 0

hostptr(ga) ==
    LET i == FirstGpu(ga)
    IN  IF ga = 0 THEN 0
        ELSE IF i < nbuffers THEN buffers[i].hostptr + (ga - buffers[i].gpuaddr) ELSE 0

hostlen(ga) ==
    LET i == FirstGpu(ga)
    IN  IF ga = 0 THEN 0
        ELSE IF i < nbuffers THEN buffers[i].len + buffers[i].gpuaddr - ga ELSE 0

(***************************************************************************)
(* Options (main, cffdump.c 2211-2321) and generation context.             *)
(***************************************************************************)
\* int draw = -1: no --draw filter in the runs modelled
draw_filter == -1

\* static char *script: no --script in the runs modelled
script == FALSE

querystrs == Len(cfg.query) > 0

summary == cfg.summary

allregs == cfg.allregs

regcnt == IF gpu_id >= 500 THEN \hFFFF ELSE \h7FFF

is_64b == gpu_id >= 500

\* quiet(lvl), with the value "summary" has at the call
quiet(lvl, summ) ==
    \/ (draw_filter # -1) /\ (draw_filter # current_draw_count)
    \/ (lvl >= 3) /\ (summ \/ querystrs \/ script)
    \/ (lvl >= 2) /\ (querystrs \/ script)

\* printl(lvl, ...): the line, unless quiet
printl(lvl, ev) == IF quiet(lvl, summary) THEN <<>> ELSE <<ev>>

Diag(msg) == [e |-> "diag", msg |-> msg]

(***************************************************************************)
(* The register file (cffdump.c 349-395).  A register file value is the    *)
(* record [vals, written, rewritten, fault]; fault records a store that    *)
(* fell outside type0_reg_vals[].                                          *)
(***************************************************************************)
\* ARRAY_SIZE(type0_reg_vals)
REG_ARRAY == 65536

\* bits in type0_reg_written[] and type0_reg_rewritten[]: the arrays hold
\* sizeof(type0_reg_vals)/8 bytes
REG_BITS == 262144

ZERO == <<0, 0>>

RegFile ==
    [vals |-> type0_reg_vals, written |-> type0_reg_written,
     rewritten |-> type0_reg_rewritten, fault |-> "none"]

reg_val_in(rf, regbase) ==
    IF regbase \in DOMAIN rf.vals THEN rf.vals[regbase] ELSE ZERO

reg_val(regbase) == reg_val_in(RegFile, regbase)

reg_written(regbase) == regbase \in type0_reg_written

reg_rewritten(regbase) == regbase \in type0_reg_rewritten

reg_lastval(regbase) ==
    IF regbase \in DOMAIN lastvals THEN lastvals[regbase] ELSE ZERO

\* f with x mapped to v
Store(f, x, v) == [y \in DOMAIN f \cup {x} |-> IF y = x THEN v ELSE f[y]]

\* the mutant of reg_set: the written-since-last-draw bit is not set
reg_set_norewritten(rf, regbase, val, oc) ==
    [rf EXCEPT !.vals = Store(rf.vals, regbase, val),
               !.written = rf.written \cup {regbase}]

\* reg_set(regbase, val).  An index past the end of type0_reg_vals[] is an
\* out-of-bounds store: oc names what the build made of it, "lost" (the
\* word landed in memory this model does not hold), "bitset" (the word
\* landed in type0_reg_rewritten[], the array declared after
\* type0_reg_vals[]: word k of it holds the bits of registers 32k .. 32k+31,
\* lowest bit first) or "crash" (the address was not mapped).  The two
\* bitsets are four times as long as the register file needs, so the bits
\* of regbase are still inside them up to REG_BITS.
reg_set(rf, regbase, val, oc) ==
    IF regbase < REG_ARRAY
    THEN [rf EXCEPT !.vals = Store(rf.vals, regbase, val),
                    !.written = rf.written \cup {regbase},
                    !.rewritten = rf.rewritten \cup {regbase}]
    ELSE LET k == regbase - REG_ARRAY
             word == (32 * k)..(32 * k + 31)
             stored == IF oc = "bitset" /\ 32 * k + 31 < REG_BITS
                       THEN (rf.rewritten \ word)
                               \cup {32 * k + j : j \in {i \in 0..31 : Bits(val, i, 1) = 1}}
                       ELSE rf.rewritten
         IN  [rf EXCEPT !.written = IF regbase < REG_BITS /\ oc # "crash"
                                    THEN rf.written \cup {regbase} ELSE rf.written,
                        !.rewritten = IF regbase < REG_BITS /\ oc # "crash"
                                      THEN stored \cup {regbase} ELSE stored,
                        !.fault = IF rf.fault = "crash" THEN "crash" ELSE oc]

is_banked_reg(regbase) == (\h2000 <= regbase) /\ (regbase < \h2400)

\* dump_registers(regbase, dwords, sizedwords, level): vals are the operand
\* words.  The register index is incremented after every word.
RECURSIVE dump_registers(_, _, _, _)
dump_registers(rf, regbase, vals, oc) ==
    IF vals = <<>> \/ rf.fault = "crash" THEN rf
    ELSE dump_registers(reg_set(rf, regbase, Head(vals), oc),
                        regbase + 1, Tail(vals), oc)

\* the register the one special-register name of the selected table resolves
\* to; the register database assigns it
FxnReg == 1

\* dump_register(): type0_reg[idx].regbase == regbase for some idx
type0_reg_fxn(regbase) == regbase = FxnReg

\* type0_reg[idx].fxn(regname, dword, level): the call of the side-effect
\* handler
FxnCall(regbase, dword) == [e |-> "fxn", reg |-> regbase, val |-> dword]

\* dump_register(regbase, dword, level): the handler it calls
dump_register(regbase, dword) ==
    IF type0_reg_fxn(regbase) THEN <<FxnCall(regbase, dword)>> ELSE <<>>

\* printl(2, "NEEDS WFI: ...") about a write to regbase
NeedsWfi(regbase) == [e |-> "diag", msg |-> "NEEDS WFI", reg |-> regbase]

\* what the loop of dump_registers prints and calls, word by word
RECURSIVE DumpOut(_, _)
DumpOut(regbase, vals) ==
    IF vals = <<>> THEN <<>>
    ELSE (IF needs_wfi /\ ~is_banked_reg(regbase)
          THEN printl(2, NeedsWfi(regbase)) ELSE <<>>)
         \o dump_register(regbase, Head(vals))
         \o DumpOut(regbase + 1, Tail(vals))

(***************************************************************************)
(* Draw / query accounting (cffdump.c 1067-1100, 1472-1504).               *)
(***************************************************************************)
\* the line do_query prints for one query register
QueryLine(regbase) ==
    [e |-> "query", reg |-> regbase, val |-> reg_val(regbase),
     changed |-> reg_val(regbase) # reg_lastval(regbase),
     rewritten |-> reg_rewritten(regbase)]

RECURSIVE QueryLines(_)
QueryLines(q) ==
    IF q = <<>> THEN <<>>
    ELSE (IF reg_written(Head(q)) THEN <<QueryLine(Head(q))>> ELSE <<>>)
         \o QueryLines(Tail(q))

\* do_query(primtype, num_indices): what it prints
do_query == QueryLines(cfg.query)

\* the registers dump_register_summary reports
SummaryRegs ==
    {r \in type0_reg_written :
        r < regcnt /\ (allregs \/ reg_rewritten(r))}

SummaryLine(r) ==
    [reg |-> r, val |-> reg_val(r), changed |-> reg_val(r) # reg_lastval(r),
     rewritten |-> reg_rewritten(r)]

\* dump_register_summary(level): what it prints, and the registers it calls
\* dump_register() for ...
SummaryOut ==
    <<[e |-> "summary", shown |-> ~quiet(2, FALSE),
       lines |-> {SummaryLine(r) : r \in SummaryRegs},
       fxns |-> IF quiet(2, FALSE) THEN {}
                ELSE {r \in SummaryRegs : type0_reg_fxn(r)}]>>

\* the mutant of SummaryLastvals: lastvals[regbase] = lastval is left out
SummaryLastvalsKept == lastvals

\* ... and the lastvals[] it leaves
SummaryLastvals ==
    LET changed == {r \in SummaryRegs : reg_val(r) # reg_lastval(r)}
    IN  [r \in DOMAIN lastvals \cup changed |->
            IF r \in changed THEN reg_val(r) ELSE lastvals[r]]

(***************************************************************************)
(* Opcodes and the dispatch table type3_op[] (cffdump.c 1895-1959).        *)
(***************************************************************************)
CP_NOP == 16

CP_REG_RMW == 33

CP_DRAW_INDX == 34

CP_WAIT_FOR_IDLE == 38

CP_BLIT == 44

CP_LOAD_STATE == 48

CP_RUN_OPENCL == 49

CP_EXEC_CS == 51

CP_DRAW_INDX_2 == 54

CP_INDIRECT_BUFFER_PFD == 55

CP_DRAW_INDX_OFFSET == 56

CP_INDIRECT_BUFFER == 63

CP_ME_INIT == 72

CP_SET_CONSTANT == 45

CP_EVENT_WRITE == 70

type3_op(val) ==
    CASE val = CP_NOP -> "cp_nop"
      [] val \in {CP_INDIRECT_BUFFER, CP_INDIRECT_BUFFER_PFD} -> "cp_indirect"
      [] val = CP_WAIT_FOR_IDLE -> "cp_wfi"
      [] val = CP_REG_RMW -> "cp_rmw"
      [] val = CP_LOAD_STATE -> "cp_load_state"
      [] val = CP_RUN_OPENCL -> "cp_run_cl"
      [] val = CP_DRAW_INDX -> "cp_draw_indx"
      [] val = CP_DRAW_INDX_2 -> "cp_draw_indx_2"
      [] val = CP_DRAW_INDX_OFFSET -> "cp_draw_indx_offset"
      [] val = CP_EXEC_CS -> "cp_exec_cs"
      [] val = CP_BLIT -> "cp_blit"
      [] val = CP_SET_CONSTANT -> "cp_set_const"
      [] val = CP_EVENT_WRITE -> "cp_event_write"
      [] OTHER -> "NULL"

(***************************************************************************)
(* The input: packets as they lie in captured memory.  A packet is the     *)
(* sequence of its dwords, header first.                                   *)
(***************************************************************************)
RECURSIVE PopCount(_)
PopCount(n) == IF n = 0 THEN 0 ELSE (n % 2) + PopCount(n \div 2)

\* the check bit that makes the number of set bits odd
OddParity(n) == (PopCount(n) + 1) % 2

\* a legacy register write of n >= 1 words starting at register base
Type0Hdr(base, n) == <<n - 1, base>>

\* a legacy opcode packet with n >= 1 operand words
Type3Hdr(opc, n) == <<\hC000 + (n - 1), opc * 256>>

\* a parity register write of n words starting at register off
Type4Hdr(off, n) ==
    <<\h4000 + 2048 * OddParity(off) + (off \div 256),
      (off % 256) * 256 + 128 * OddParity(n) + n>>

\* a parity opcode packet with n operand words
Type7Hdr(opc, n) == <<\h7000 + 128 * OddParity(opc) + opc, 32768 * OddParity(n) + n>>

\* 0x72000003
HDR_72000003 == <<\h7200, 3>>

\* a dword as an address or a count
Val(w) == Hi(w) * 65536 + Lo(w)

\* ((uint64_t)hi << 32) | lo
Addr64(lo, hi) == IF hi = ZERO THEN Val(lo) ELSE Val(lo) + Val(hi) * 65536 * 65536

\* GPU addresses of the captured regions, and one no region holds
GPU_A == 4096

\* where the indirect buffers of the captures lie: inside the region at GPU_A
GPU_IB == 4112

GPU_IB2 == 4128

GPU_IB3 == 4144

GPU_B == 8192

GPU_NONE == 12288

\* a draw's operands: dwords[1] holds the index count in its high half
DrawOps(n) == <<ZERO, <<n, 4>>, ZERO>>

\* CP_DRAW_INDX_OFFSET: dwords[2] is the index count
DrawOffsetOps(n) == <<U32(4), ZERO, U32(n)>>

\* the operands of an indirect-buffer opcode; b64 for an a5xx stream
IbOps(b64, ga, n) == IF b64 THEN <<U32(ga), ZERO, U32(n)>> ELSE <<U32(ga), U32(n)>>

\* enum adreno_state_block, enum adreno_state_type
SB_VERT_TEX == 0

SB_FRAG_TEX == 2

SB_FRAG_SHADER == 6

ST_SHADER == 0

ST_CONSTANTS == 1

\* the words of the texture state in the captures
TexWords == 24

\* a texture table of TexWords words: those at the positions in set are 1,
\* the others 0
TexTable(set) == [i \in 1..TexWords |-> IF i \in set THEN U32(1) ELSE ZERO]

\* the operands of CP_LOAD_STATE: dwords[0] holds num_unit from bit 22 and the
\* state block from bit 19, dwords[1] the state type and the external address
LoadStateOps(b64, block, type, num_unit, ext, contents) ==
    <<<<num_unit * 64 + block * 8, 0>>, U32(ext + type)>>
        \o (IF b64 THEN <<ZERO>> ELSE <<>>) \o contents

\* the operands of CP_SET_CONSTANT: dwords[0] holds the relative flag in bit
\* 31, the sub-type from bit 16 and the constant's index in its low half
SetConstOps(rel, sub, val, words) ==
    <<<<(IF rel THEN \h8000 ELSE 0) + sub, val>>>> \o words

\* values of enum vgt_event_type, as the register database numbers them:
\* BLIT and one other event
EV_BLIT == 30

EV_CACHE_FLUSH == 6

\* rnn_enumname(rnn, "vgt_event_type", val)
rnn_enumname(val) ==
    IF val = EV_BLIT THEN "BLIT"
    ELSE IF val = EV_CACHE_FLUSH THEN "CACHE_FLUSH" ELSE "NULL"

\* an opcode packet as the generation's driver emits it
Op(b64, opc, ops) ==
    <<IF b64 THEN Type7Hdr(opc, Len(ops)) ELSE Type3Hdr(opc, Len(ops))>> \o ops

\* the packets a stream of each input class is made of
MenuOf(class, b64) ==
    CASE class = "regs" ->
           { <<Type0Hdr(0, 2), U32(1), U32(2)>>,
             <<Type0Hdr(1, 1), U32(2)>>,
             <<Type4Hdr(1, 1), U32(3)>>,
             <<Type4Hdr(REG_ARRAY, 1), U32(3)>>,
             <<HDR_72000003, U32(1), U32(2)>>,
             Op(b64, CP_REG_RMW, <<U32(1), U32(1), <<1, 0>>>>),
             Op(b64, CP_DRAW_INDX_OFFSET, DrawOffsetOps(3)),
             Op(b64, CP_WAIT_FOR_IDLE, <<ZERO>>),
             Op(b64, CP_NOP, <<ZERO>>),
             Op(b64, CP_ME_INIT, <<ZERO>>) }
      [] class = "draws" ->
           { <<Type0Hdr(0, 2), U32(1), U32(2)>>,
             <<Type0Hdr(1, 1), U32(2)>>,
             Op(b64, CP_DRAW_INDX, DrawOps(0)),
             Op(b64, CP_DRAW_INDX, DrawOps(3)),
             Op(b64, CP_DRAW_INDX_2, DrawOps(0)),
             Op(b64, CP_DRAW_INDX_OFFSET, DrawOffsetOps(0)),
             Op(b64, CP_DRAW_INDX_OFFSET, DrawOffsetOps(3)),
             Op(b64, CP_EXEC_CS, <<ZERO>>),
             Op(b64, CP_BLIT, <<ZERO>>),
             Op(b64, CP_RUN_OPENCL, <<ZERO>>) }
      [] class = "nest" ->
           { <<Type0Hdr(1, 1), U32(2)>>,
             Op(b64, CP_INDIRECT_BUFFER_PFD, IbOps(b64, GPU_IB, 4)),
             Op(b64, CP_INDIRECT_BUFFER, IbOps(b64, GPU_IB2, 4)),
             Op(b64, CP_INDIRECT_BUFFER, IbOps(b64, GPU_IB3, 0)),
             Op(b64, CP_INDIRECT_BUFFER, IbOps(b64, GPU_NONE, 5)),
             Op(b64, CP_DRAW_INDX_OFFSET, DrawOffsetOps(3)),
             Op(b64, CP_DRAW_INDX, DrawOps(0)),
             <<CP_TYPE2_PKT>>,
             <<HDR_72000003, U32(1), U32(2)>> }
      [] class = "tex" ->
           { <<Type0Hdr(1, 1), U32(2)>>,
             Op(b64, CP_LOAD_STATE,
                LoadStateOps(b64, SB_FRAG_TEX, ST_SHADER, 2, 0, TexTable(1..TexWords))),
             Op(b64, CP_LOAD_STATE,
                LoadStateOps(b64, SB_FRAG_TEX, ST_CONSTANTS, 2, 0, TexTable(1..TexWords))),
             Op(b64, CP_LOAD_STATE,
                LoadStateOps(b64, SB_VERT_TEX, ST_CONSTANTS, 16, 0, TexTable({1}))),
             Op(b64, CP_LOAD_STATE,
                LoadStateOps(b64, SB_VERT_TEX, ST_SHADER, 16, 0, TexTable({}))),
             \* a table whose first four words are clear and the others set
             Op(b64, CP_LOAD_STATE,
                LoadStateOps(b64, SB_VERT_TEX, ST_SHADER, 16, 0, TexTable(5..TexWords))),
             Op(b64, CP_LOAD_STATE,
                LoadStateOps(b64, SB_FRAG_TEX, ST_CONSTANTS, 1, GPU_NONE, <<>>)),
             Op(b64, CP_LOAD_STATE,
                LoadStateOps(b64, SB_FRAG_SHADER, ST_CONSTANTS, 1, 0, TexTable(1..TexWords))) }
      [] class = "wfi" ->
           { <<Type0Hdr(\h2000, 1), U32(2)>>,
             <<Type0Hdr(\h7FFF, 1), U32(2)>>,
             Op(b64, CP_REG_RMW, <<U32(\h2000), U32(1), <<1, 0>>>>),
             Op(b64, CP_DRAW_INDX, DrawOps(3)),
             Op(b64, CP_WAIT_FOR_IDLE, <<ZERO>>) }
      \* 0x00018000: a type0 header with bit 15 set, two words at register 0
      [] class = "const" ->
           { <<<<1, \h8000>>, U32(1), U32(2)>>,
             Op(b64, CP_SET_CONSTANT,
                SetConstOps(TRUE, 4, 0, <<ZERO, <<\hFFFF, \hFFFF>>>>)),
             Op(b64, CP_SET_CONSTANT, SetConstOps(FALSE, 4, 1, <<U32(1), U32(2)>>)),
             Op(b64, CP_SET_CONSTANT, SetConstOps(FALSE, 4, \hE000, <<U32(1)>>)),
             Op(b64, CP_SET_CONSTANT, SetConstOps(FALSE, 2, 1, <<U32(1)>>)),
             Op(b64, CP_EVENT_WRITE, <<U32(EV_BLIT)>>),
             Op(b64, CP_EVENT_WRITE, <<U32(EV_CACHE_FLUSH)>>),
             Op(b64, CP_EVENT_WRITE, <<ZERO>>) }
      [] class = "files" ->
           { <<Type0Hdr(1, 1), U32(2)>>,
             Op(b64, CP_DRAW_INDX_OFFSET, DrawOffsetOps(3)),
             Op(b64, CP_DRAW_INDX, DrawOps(3)) }

Menus ==
    [class \in {"regs", "draws", "nest", "tex", "wfi", "const", "files"}, b64 \in BOOLEAN |->
        MenuOf(class, b64)]

Menu == Menus[cfg.class, is_64b]

\* the if / else-if chain of dump_commands() over a packet's header, tabulated
\* for the packets of the menus
Kinds == [pkt \in UNION {Menus[x] : x \in DOMAIN Menus} |-> Classify(pkt[1])]

(***************************************************************************)
(* Bounds of the runs explored.                                            *)
(***************************************************************************)
\* regions registered at one time
MaxBuffers == 2

\* sections read from the capture files
MaxSections == 4

\* capture files on the command line, in the runs of more than one
MaxFiles == 2

\* packets read from captured memory in a run
MaxPackets == 3

\* dump_commands() calls active at one time
MaxDepth == 4

\* byte length of every captured region
BufLen == 64

\* distance between two malloc()ed section buffers
HostStride == 256

\* the generations of the captures: an a2xx and an a5xx; of those that load
\* texture state, one of every generation; the captures that write events
\* add 500, the lowest RD_GPU_ID that selects the a5xx tables
GpuIdsOf(class) ==
    IF class = "tex" THEN {330, 430, 530, 630}
    ELSE IF class = "const" THEN {220, 500, 530} ELSE {220, 530}

\* the register --query names in the runs that use it
QueryReg == 1

\* a run: the class of its streams, the options of its command line, the
\* number of capture files named on it, and the tables of special registers
\* (reg_a2xx .. reg_a5xx) with a name the register database does not hold
Run(class, query, summ, all, files, unresolved) ==
    [class |-> class, query |-> query, summary |-> summ, allregs |-> all,
     files |-> files, unresolved |-> unresolved]

Cfgs ==
    { Run("regs", <<QueryReg>>, FALSE, FALSE, 1, {}),
      Run("draws", <<QueryReg>>, FALSE, FALSE, 1, {}),
      Run("draws", <<>>, TRUE, TRUE, 1, {}),
      Run("nest", <<>>, FALSE, FALSE, 1, {}),
      Run("tex", <<>>, FALSE, FALSE, 1, {}),
      Run("wfi", <<>>, FALSE, FALSE, 1, {}),
      Run("const", <<QueryReg>>, FALSE, FALSE, 1, {}),
      Run("files", <<>>, FALSE, FALSE, MaxFiles, {}),
      Run("files", <<QueryReg>>, FALSE, FALSE, 1, {"reg_a2xx"}),
      Run("files", <<QueryReg>>, FALSE, FALSE, 1, {"reg_a5xx"}) }

vars ==
    <<hdr, kind, rq, vsc_pipe_data, vfd_fetch_state, gpuaddr_lo, fx,
      buffers, nbuffers, mem, nalloc, gpu_id, type0_reg, needs_wfi, cfg,
      type0_reg_vals, type0_reg_written, type0_reg_rewritten, lastvals, draws, ib,
      draw_count, current_draw_count, vertices, stack, pc,
      nfiles, needs_reset, got_gpu_id, submit, npkts, op, out, lastq>>

\* what the actions of Spec leave alone: the harness variables, and the side
\* tables of the special-register handlers.  Spec takes a handler as the call
\* dump_register() makes (FxnCall); SpecFxn runs the handlers.
harness == <<hdr, kind, rq, vsc_pipe_data, vfd_fetch_state, gpuaddr_lo, fx>>

tablevars == <<buffers, nbuffers, nalloc>>

regvars == <<type0_reg_vals, type0_reg_written, type0_reg_rewritten>>

drawvars == <<draws, ib, draw_count, vertices>>

filevars == <<nfiles, needs_reset, got_gpu_id, submit>>

genvars == <<gpu_id, cfg>>

NoLookup == [op |-> "none", arg |-> 0, mid |-> 0, res |-> 0]

\* lines: what the evaluation printed; summ: the opcode went on to the
\* register summary; dirty: a register was written, or the register file
\* reset, since; again: the evaluation before it had no such write after it;
\* after: and that one went on to the register summary
NoQuery ==
    [lines |-> <<>>, summ |-> FALSE, dirty |-> TRUE, again |-> FALSE, after |-> FALSE]

\* the statics as the loader leaves them, before main() runs
StaticsInit ==
    /\ vsc_pipe_data = [i \in 0..6 |-> [config |-> ZERO, address |-> ZERO, length |-> ZERO]]
    /\ vfd_fetch_state = [i \in 0..14 |-> [fetchsize |-> 0, bufstride |-> 0]]
    /\ gpuaddr_lo = ZERO
    /\ fx = [fxn |-> "none", name |-> [hex |-> FALSE, digits |-> <<>>], idx |-> 0,
             val |-> ZERO, past |-> [address |-> ZERO, fetchsize |-> 0],
             buf |-> 0, sizedwords |-> 0, calls |-> 0]
    /\ mem = <<>>
    /\ nalloc = 0
    /\ gpu_id = 220
    /\ type0_reg = "NULL"
    /\ needs_wfi = FALSE
    /\ type0_reg_vals = <<>>
    /\ type0_reg_written = {}
    /\ type0_reg_rewritten = {}
    /\ lastvals = <<>>
    /\ draws = [i \in 0..2 |-> 0]
    /\ ib = 0
    /\ draw_count = 0
    /\ current_draw_count = 0
    /\ vertices = 0
    /\ stack = <<>>
    /\ pc = "idle"
    /\ nfiles = 0
    /\ needs_reset = BOOLEAN
    /\ got_gpu_id = FALSE
    /\ submit = 0
    /\ npkts = 0
    /\ op = "none"
    /\ out = <<>>
    /\ lastq = NoQuery

Init ==
    /\ StaticsInit
    /\ buffers = [i \in 0..MaxBuffers |-> NoBuffer]
    /\ nbuffers = 0
    /\ cfg \in Cfgs
    /\ hdr = ZERO
    /\ kind = "none"
    /\ rq = NoLookup

(***************************************************************************)
(* Generation initialisation (cffdump.c 854-924).                          *)
(***************************************************************************)
\* the mutant of init_rnn: an unresolved name is reported and the run goes on
init_rnn_noexit(table, p) == p

\* init_rnn(gpuname), called with type0_reg already set to table: the
\* position the run is at afterwards.  regbase() of every name of the table
\* is looked up in the register database; a name it does not hold is
\* exit(1).
init_rnn(table, p) == IF table \in cfg.unresolved THEN "exited" ELSE p

\* init_a2xx() .. init_a5xx(): nothing when the table is already selected
init_aXxx(table, p) == IF type0_reg = table THEN p ELSE init_rnn(table, p)

\* the table handle_file selects for a gpu_id
TableOf(id) ==
    IF id >= 500 THEN "reg_a5xx"
    ELSE IF id >= 400 THEN "reg_a4xx"
    ELSE IF id >= 300 THEN "reg_a3xx" ELSE "reg_a2xx"

(***************************************************************************)
(* handle_file(): one action per section of the capture.                   *)
(***************************************************************************)
\* draws[i] = 0 with i outside 0..2 is a store past the array.  v names what
\* the build placed there: "ib" (the static declared next, at draws[3]) or
\* "lost" (memory this model does not hold).
Victims(i) == IF i = 3 THEN {"ib", "lost"} ELSE {"lost"}

\* dump_commands() entry at nesting level i: draws[ib] = 0
EnterDraws(i) == IF i \in 0..2 THEN [draws EXCEPT ![i] = 0] ELSE draws

EnterIb(i, v) == IF i = 3 /\ v = "ib" THEN 0 ELSE i

Frame(p, n, r, i0) ==
    [dwords |-> p, left |-> n, count |-> 0, ret |-> r, ib0 |-> i0, draws0 |-> draws]

\* handle_file() up to its section loop.  needs_reset is not initialised.
StartFile ==
    /\ pc = "idle"
    /\ nfiles < cfg.files
    /\ nfiles' = nfiles + 1
    /\ pc' = "file"
    /\ draw_count' = 0
    /\ type0_reg_written' = {}
    /\ type0_reg_rewritten' = {}
    /\ lastvals' = <<>>
    /\ submit' = 0
    /\ got_gpu_id' = FALSE
    /\ needs_reset' = BOOLEAN
    /\ op' = "handle_file"
    /\ out' = <<>>
    /\ lastq' = NoQuery
    /\ UNCHANGED <<harness, tablevars, mem, genvars, type0_reg, needs_wfi, type0_reg_vals, draws,
                   ib, current_draw_count, vertices, stack, npkts>>

\* the part every section shares: a fresh buffer, needs_wfi = false
Section(name) ==
    /\ pc = "file"
    /\ nalloc < MaxSections
    /\ nalloc' = nalloc + 1
    /\ needs_wfi' = FALSE
    /\ op' = name

\* case RD_GPU_ID
SectGpuId ==
    /\ Section("RD_GPU_ID")
    /\ \E id \in GpuIdsOf(cfg.class) :
          IF got_gpu_id
          THEN UNCHANGED <<gpu_id, type0_reg, pc>>
          ELSE /\ gpu_id' = id
               /\ type0_reg' = TableOf(id)
               /\ pc' = init_aXxx(TableOf(id), pc)
    /\ got_gpu_id' = TRUE
    /\ out' = <<>>
    /\ UNCHANGED <<harness, buffers, nbuffers, mem, cfg, regvars, lastvals, drawvars,
                   current_draw_count, stack, nfiles, needs_reset, submit, npkts,
                   lastq>>

\* case RD_GPUADDR
SectGpuAddr ==
    /\ Section("RD_GPUADDR")
    /\ \E ga \in {GPU_A, GPU_B}, reset \in needs_reset :
          LET n0 == IF reset THEN 0 ELSE nbuffers
              b0 == IF reset
                    THEN [i \in DOMAIN buffers |->
                            IF i < nbuffers THEN [buffers[i] EXCEPT !.hostptr = 0]
                            ELSE buffers[i]]
                    ELSE buffers
          IN  /\ buffers' = [b0 EXCEPT ![n0] = [@ EXCEPT !.len = BufLen, !.gpuaddr = ga]]
              /\ nbuffers' = n0
              /\ mem' = IF reset THEN <<>> ELSE mem
    /\ needs_reset' = {FALSE}
    /\ out' = <<>>
    /\ UNCHANGED <<harness, genvars, type0_reg, regvars, lastvals, drawvars, current_draw_count,
                   stack, pc, nfiles, got_gpu_id, submit, npkts, lastq>>

\* case RD_BUFFER_CONTENTS
SectBufferContents ==
    /\ Section("RD_BUFFER_CONTENTS")
    /\ nbuffers < MaxBuffers
    /\ buffers' = [buffers EXCEPT ![nbuffers].hostptr = HostStride * (nbuffers + 1)]
    /\ nbuffers' = nbuffers + 1
    /\ out' = <<>>
    /\ UNCHANGED <<harness, mem, genvars, type0_reg, regvars, lastvals, drawvars,
                   current_draw_count, stack, pc, filevars, npkts, lastq>>

\* case RD_CMDSTREAM_ADDR, up to the first iteration of dump_commands(); the
\* streams of the captures explored are 3 or 8 dwords long
SectCmdstream ==
    /\ Section("RD_CMDSTREAM_ADDR")
    /\ \E ga \in {GPU_A, GPU_NONE}, sizedwords \in {3, 8}, v \in Victims(ib) :
          IF hostptr(ga) = 0
          THEN /\ out' = <<Diag("NULL cmd buffer!")>>
               /\ needs_reset' = {TRUE}
               /\ submit' = submit + 1
               /\ UNCHANGED <<draws, ib, stack, pc>>
          ELSE /\ draws' = EnterDraws(ib)
               /\ ib' = EnterIb(ib, v)
               /\ stack' = <<Frame(hostptr(ga), sizedwords, "file", ib)>>
               /\ pc' = "decode"
               /\ out' = <<>>
               /\ UNCHANGED <<needs_reset, submit>>
    /\ UNCHANGED <<harness, buffers, nbuffers, mem, genvars, type0_reg, regvars, lastvals,
                   draw_count, vertices, current_draw_count, nfiles, got_gpu_id, npkts,
                   lastq>>

\* io_readn() reaches the end of the file
EndFile ==
    /\ pc = "file"
    /\ pc' = "idle"
    /\ op' = "end"
    /\ out' = <<>>
    /\ UNCHANGED <<harness, tablevars, mem, genvars, type0_reg, needs_wfi, regvars, lastvals,
                   drawvars, current_draw_count, stack, filevars, npkts, lastq>>

(***************************************************************************)
(* dump_commands(): one action per iteration of its loop, by packet kind   *)
(* and, for opcode packets, by handler.                                    *)
(***************************************************************************)
Top == stack[Len(stack)]

\* init(): the a2xx tables, unless a generation has been selected
init == IF type0_reg = "NULL" THEN "reg_a2xx" ELSE type0_reg

\* init() returns: its init_a2xx(), when it calls it, does not exit
InitOk == type0_reg # "NULL" \/ init_aXxx("reg_a2xx", pc) # "exited"

Cur == Top.dwords

\* pkt agrees with what has been read of memory at the cursor
Fits(pkt) ==
    \A i \in 1..Len(pkt) :
        (Cur + 4 * (i - 1)) \in DOMAIN mem => mem[Cur + 4 * (i - 1)] = pkt[i]

\* the iteration reads pkt at the cursor
Reads(pkt) ==
    /\ pkt \in Menu
    /\ Fits(pkt)
    /\ (Cur \notin DOMAIN mem) => (npkts < MaxPackets)
    /\ mem' = [a \in DOMAIN mem \cup {Cur + 4 * (i - 1) : i \in 1..Len(pkt)} |->
                 IF a \in DOMAIN mem THEN mem[a] ELSE pkt[((a - Cur) \div 4) + 1]]
    /\ npkts' = IF Cur \in DOMAIN mem THEN npkts ELSE npkts + 1

\* while (dwords_left > 0) { current_draw_count = draw_count; ...
Begin(pkt) ==
    /\ Top.left > 0
    /\ Reads(pkt)
    /\ current_draw_count' = draw_count

\* the mutant of Advance: the cursor skips the operand words, not the header
AdvanceNoHeader(count) ==
    [stack EXCEPT ![Len(stack)] =
        [@ EXCEPT !.dwords = @ + 4 * (count - 1), !.left = @ - (count - 1),
                  !.count = count]]

\* ... dwords += count; dwords_left -= count; }
Advance(count) ==
    [stack EXCEPT ![Len(stack)] =
        [@ EXCEPT !.dwords = @ + 4 * count, !.left = @ - count, !.count = count]]

\* a return from dump_commands(): to cp_indirect, which does ib--, or to
\* handle_file
Return ==
    /\ stack' = SubSeq(stack, 1, Len(stack) - 1)
    /\ IF Top.ret = "ib"
       THEN /\ ib' = ib - 1
            /\ UNCHANGED <<pc, needs_reset, submit>>
       ELSE /\ pc' = "file"
            /\ needs_reset' = {TRUE}
            /\ submit' = submit + 1
            /\ UNCHANGED ib

SetRegFile(rf) ==
    /\ type0_reg_vals' = rf.vals
    /\ type0_reg_written' = rf.written
    /\ type0_reg_rewritten' = rf.rewritten

\* what an out-of-bounds register store can come to
Outcomes(regbase, n) ==
    IF regbase + n > REG_ARRAY THEN {"lost", "bitset", "crash"} ELSE {"lost"}

\* the loop has run out of dwords
LoopExit ==
    /\ pc = "decode"
    /\ Top.left <= 0
    /\ Return
    /\ op' = "return"
    /\ out' = IF Top.left < 0 THEN <<Diag("this ain't right")>> ELSE <<>>
    /\ UNCHANGED <<harness, tablevars, mem, genvars, type0_reg, needs_wfi, regvars, lastvals,
                   draws, draw_count, vertices, current_draw_count, nfiles, got_gpu_id,
                   npkts, lastq>>

\* if (pkt_is_type0(dwords[0]))
PktType0 ==
    /\ pc = "decode"
    /\ \E pkt \in Menu :
           /\ Begin(pkt)
           /\ Kinds[pkt] = "type0"
           /\ InitOk
           /\ LET count == type0_pkt_size(pkt[1]) + 1
                  val == type0_pkt_offset(pkt[1])
              IN  /\ Len(pkt) = count
                  /\ \E oc \in Outcomes(val, count - 1) :
                        LET rf == dump_registers(RegFile, val, Tail(pkt), oc)
                        IN  /\ SetRegFile(rf)
                            /\ pc' = IF rf.fault = "crash" THEN "aborted" ELSE pc
                            /\ stack' = IF rf.fault = "crash" THEN stack ELSE Advance(count)
                  /\ out' = DumpOut(val, Tail(pkt))
           /\ op' = "type0"
           /\ type0_reg' = init
           /\ lastq' = [lastq EXCEPT !.dirty = TRUE]
           /\ UNCHANGED <<harness, tablevars, genvars, needs_wfi, lastvals, drawvars,
                          filevars>>

\* else if (pkt_is_type4(dwords[0]))
PktType4 ==
    /\ pc = "decode"
    /\ \E pkt \in Menu :
           /\ Begin(pkt)
           /\ Kinds[pkt] = "type4"
           /\ InitOk
           /\ LET count == type4_pkt_size(pkt[1]) + 1
                  val == type4_pkt_offset(pkt[1])
              IN  /\ Len(pkt) = count
                  /\ \E oc \in Outcomes(val, count - 1) :
                        LET rf == dump_registers(RegFile, val, Tail(pkt), oc)
                        IN  /\ SetRegFile(rf)
                            /\ pc' = IF rf.fault = "crash" THEN "aborted" ELSE pc
                            /\ stack' = IF rf.fault = "crash" THEN stack ELSE Advance(count)
                  /\ out' = DumpOut(val, Tail(pkt))
           /\ op' = "type4"
           /\ type0_reg' = init
           /\ lastq' = [lastq EXCEPT !.dirty = TRUE]
           /\ UNCHANGED <<harness, tablevars, genvars, needs_wfi, lastvals, drawvars,
                          filevars>>

\* else if (pkt_is_type2(dwords[0])): count keeps the value the previous
\* iteration left, 0 in the first
PktType2 ==
    /\ pc = "decode"
    /\ \E pkt \in Menu :
           /\ Begin(pkt)
           /\ Kinds[pkt] = "type2"
           /\ stack' = Advance(Top.count)
           /\ op' = "type2"
           /\ out' = <<>>
           /\ UNCHANGED <<harness, tablevars, genvars, type0_reg, needs_wfi, regvars, lastvals,
                          drawvars, pc, filevars, lastq>>

\* else { printf("bad type! ..."); return; }
PktBad ==
    /\ pc = "decode"
    /\ \E pkt \in Menu :
           /\ Begin(pkt)
           /\ Kinds[pkt] = "bad"
           /\ Return
           /\ op' = "bad"
           /\ out' = <<Diag("bad type!")>>
           /\ UNCHANGED <<harness, tablevars, genvars, type0_reg, needs_wfi, regvars, lastvals,
                          draws, draw_count, vertices, nfiles, got_gpu_id, lastq>>

\* the first packet that needs the tables, in a capture without RD_GPU_ID:
\* regname() or dump_commands() calls init(), whose init_a2xx() exits
InitExit ==
    /\ pc = "decode"
    /\ \E pkt \in Menu :
           /\ Begin(pkt)
           /\ Kinds[pkt] \in {"type0", "type4", "type3", "type7"}
           /\ ~InitOk
           /\ type0_reg' = init
           /\ pc' = init_aXxx(init, pc)
           /\ op' = "exit"
           /\ out' = <<Diag("invalid register name")>>
           /\ UNCHANGED <<harness, tablevars, genvars, needs_wfi, regvars, lastvals,
                          drawvars, stack, filevars, lastq>>

(***************************************************************************)
(* Opcode packets: else if (pkt_is_type3(...)) / else if (pkt_is_type7(...))*)
(* and the handlers of type3_op[].                                         *)
(***************************************************************************)
Opcode(pkt) ==
    IF Kinds[pkt] = "type3" THEN cp_type3_opcode(pkt[1]) ELSE cp_type7_opcode(pkt[1])

OpCount(pkt) ==
    IF Kinds[pkt] = "type3" THEN type3_pkt_size(pkt[1]) + 1
    ELSE type7_pkt_size(pkt[1]) + 1

\* the iteration reads an opcode packet whose handler is name
OpPkt(pkt, name) ==
    /\ Begin(pkt)
    /\ Kinds[pkt] \in {"type3", "type7"}
    /\ InitOk
    /\ type3_op(Opcode(pkt)) = name
    /\ Len(pkt) = OpCount(pkt)
    /\ type0_reg' = init
    /\ op' = name

\* dwords[i] of a handler: the operand words follow the header
dw(pkt, i) == pkt[i + 2]

\* draws[ib]++
IncDraws == IF ib \in 0..2 THEN [draws EXCEPT ![ib] = @ + 1] ELSE draws

IncIb(v) == IF ib = 3 /\ v = "ib" THEN ib + 1 ELSE ib

\* the record of a query evaluation; summ tells whether the opcode went on
\* to dump_register_summary()
Queried(summ) ==
    [lines |-> do_query, summ |-> summ, dirty |-> FALSE,
     again |-> ~lastq.dirty, after |-> ~lastq.dirty /\ lastq.summ]

\* handlers that change nothing this model holds
CpNop ==
    /\ pc = "decode"
    /\ \E pkt \in Menu :
           /\ OpPkt(pkt, "cp_nop")
           /\ stack' = Advance(OpCount(pkt))
           /\ out' = <<>>
           /\ UNCHANGED <<harness, tablevars, genvars, needs_wfi, regvars, lastvals,
                          drawvars, pc, filevars, lastq>>

\* if (type3_op[val].fxn) is false
CpUnhandled ==
    /\ pc = "decode"
    /\ \E pkt \in Menu :
           /\ OpPkt(pkt, "NULL")
           /\ stack' = Advance(OpCount(pkt))
           /\ out' = <<>>
           /\ UNCHANGED <<harness, tablevars, genvars, needs_wfi, regvars, lastvals,
                          drawvars, pc, filevars, lastq>>

CpWfi ==
    /\ pc = "decode"
    /\ \E pkt \in Menu :
           /\ OpPkt(pkt, "cp_wfi")
           /\ needs_wfi' = FALSE
           /\ stack' = Advance(OpCount(pkt))
           /\ out' = <<>>
           /\ UNCHANGED <<harness, tablevars, genvars, regvars, lastvals, drawvars, pc,
                          filevars, lastq>>

CpRmw ==
    /\ pc = "decode"
    /\ \E pkt \in Menu :
           /\ OpPkt(pkt, "cp_rmw")
           /\ LET val == Lo(dw(pkt, 0))
                  rf == reg_set(RegFile, val,
                                Or32(And32(reg_val(val), dw(pkt, 1)), dw(pkt, 2)), "lost")
              IN  SetRegFile(rf)
           /\ stack' = Advance(OpCount(pkt))
           /\ out' = IF needs_wfi THEN printl(2, NeedsWfi(Lo(dw(pkt, 0)))) ELSE <<>>
           /\ lastq' = [lastq EXCEPT !.dirty = TRUE]
           /\ UNCHANGED <<harness, tablevars, genvars, needs_wfi, lastvals, drawvars, pc,
                          filevars>>

\* cp_indirect(): the scan is its own, without the test for address 0
CpIndirect ==
    /\ pc = "decode"
    /\ \E pkt \in Menu :
           /\ OpPkt(pkt, "cp_indirect")
           /\ LET ibaddr == IF is_64b THEN Addr64(dw(pkt, 0), dw(pkt, 1)) ELSE Val(dw(pkt, 0))
                  ibsize == IF is_64b THEN Val(dw(pkt, 2)) ELSE Val(dw(pkt, 1))
                  i == FirstGpu(ibaddr)
                  ptr == IF i < nbuffers
                         THEN buffers[i].hostptr + (ibaddr - buffers[i].gpuaddr) ELSE 0
              IN  IF ptr # 0
                  THEN /\ Len(stack) < MaxDepth
                       /\ \E v \in Victims(ib + 1) :
                             /\ draws' = EnterDraws(ib + 1)
                             /\ ib' = EnterIb(ib + 1, v)
                       /\ stack' = Append(Advance(OpCount(pkt)), Frame(ptr, ibsize, "ib", ib))
                       /\ out' = <<>>
                  ELSE /\ stack' = Advance(OpCount(pkt))
                       /\ out' = <<Diag("could not find")>>
                       /\ UNCHANGED <<draws, ib>>
           /\ UNCHANGED <<harness, tablevars, genvars, needs_wfi, regvars, lastvals,
                          draw_count, vertices, pc, filevars, lastq>>

\* cp_set_const(): of the sub-types, 2 and 3 print one line and 4 writes
\* registers from 0x2000 up; the captures explored hold these three
CpSetConst ==
    /\ pc = "decode"
    /\ \E pkt \in Menu :
           /\ OpPkt(pkt, "cp_set_const")
           /\ LET sizedwords == OpCount(pkt) - 1
                  sub == Hi(dw(pkt, 0)) % 16
                  val == Lo(dw(pkt, 0)) + \h2000
                  relative == Hi(dw(pkt, 0)) >= \h8000
                  srcreg == Val(dw(pkt, 1))
                  dstval == Add32(dw(pkt, 2), reg_val(srcreg))
                  vals == IF relative THEN <<dstval>> ELSE SubSeq(pkt, 3, Len(pkt))
              IN  /\ sub \in {2, 3, 4}
                  /\ IF sub # 4
                     THEN /\ out' = <<[e |-> "const", sub |-> sub]>>
                          /\ stack' = Advance(OpCount(pkt))
                          /\ UNCHANGED <<regvars, pc, lastq>>
                     ELSE IF relative /\ (sizedwords # 3 \/ srcreg >= REG_ARRAY)
                     THEN /\ out' = <<>>
                          /\ pc' = "aborted"
                          /\ UNCHANGED <<regvars, stack, lastq>>
                     ELSE /\ \E oc \in Outcomes(val, Len(vals)) :
                                LET rf == dump_registers(RegFile, val, vals, oc)
                                IN  /\ SetRegFile(rf)
                                    /\ pc' = IF rf.fault = "crash" THEN "aborted" ELSE pc
                                    /\ stack' = IF rf.fault = "crash" THEN stack
                                                ELSE Advance(OpCount(pkt))
                          /\ out' = DumpOut(val, vals)
                          /\ lastq' = [lastq EXCEPT !.dirty = TRUE]
           /\ UNCHANGED <<harness, tablevars, genvars, needs_wfi, lastvals, drawvars,
                          filevars>>

(***************************************************************************)
(* cp_load_state(): the texture sampler and texture constant tables.       *)
(***************************************************************************)
\* dwords a unit takes, by the branch of the loop body gpu_id selects; 0 when
\* it selects none.  samp: the sampler table (state_type == ST_SHADER)
TexStride(samp) ==
    IF (300 <= gpu_id) /\ (gpu_id < 400) THEN (IF samp THEN 2 ELSE 4)
    ELSE IF (400 <= gpu_id) /\ (gpu_id < 500) THEN (IF samp THEN 2 ELSE 8)
    ELSE IF (500 <= gpu_id) /\ (gpu_id < 600) THEN (IF samp THEN 4 ELSE 12)
    ELSE 0

\* the work-around for the blob that always writes 16 units: the leading
\* words of the unit at the cursor are 0
TexPadding(contents, at, num_unit, samp) ==
    /\ num_unit = 16
    /\ \A k \in 1..(IF samp THEN 2 ELSE 4) : contents[at + k] = ZERO

\* for (i = 0; i < num_unit; i++) over the table at contents: the record of
\* the loop from iteration i on, the cursor being at dwords past contents.
\* units: the dump_domain() calls, iters: the iterations run to their end,
\* cursor: where texsamp / texconst is left
RECURSIVE TexLoop(_, _, _, _, _)
TexLoop(contents, at, i, num_unit, samp) ==
    IF i >= num_unit \/ TexPadding(contents, at, num_unit, samp)
    THEN [units |-> <<>>, iters |-> i, cursor |-> at]
    ELSE LET n == TexStride(samp)
             rest == TexLoop(contents, at + n, i + 1, num_unit, samp)
         IN  [rest EXCEPT !.units =
                 (IF n > 0 THEN <<[at |-> at, n |-> n]>> ELSE <<>>) \o @]

\* cp_load_state(): prints, and changes no state.  The captures explored
\* carry the state inline or name an address no region holds.
CpLoadState ==
    /\ pc = "decode"
    /\ \E pkt \in Menu :
           /\ OpPkt(pkt, "cp_load_state")
           /\ LET state_block_id == (Hi(dw(pkt, 0)) \div 8) % 8
                  state_type == Lo(dw(pkt, 1)) % 4
                  num_unit == (Hi(dw(pkt, 0)) \div 64) % 512
                  lo == Val(dw(pkt, 1)) - state_type
                  ext_src_addr == IF is_64b THEN Addr64(U32(lo), dw(pkt, 2)) ELSE lo
                  inline == SubSeq(pkt, IF is_64b THEN 5 ELSE 4, Len(pkt))
                  samp == state_type = ST_SHADER
              IN  /\ (ext_src_addr # 0) => (hostptr(ext_src_addr) = 0)
                  /\ out' =
                        IF quiet(2, summary) \/ ext_src_addr # 0 THEN <<>>
                        ELSE IF state_block_id \in {SB_FRAG_TEX, SB_VERT_TEX}
                        THEN <<[e |-> "tex", samp |-> samp, num_unit |-> num_unit,
                                loop |-> TexLoop(inline, 0, 0, num_unit, samp)]>>
                        ELSE <<[e |-> "state", block |-> state_block_id]>>
           /\ stack' = Advance(OpCount(pkt))
           /\ UNCHANGED <<harness, tablevars, genvars, needs_wfi, regvars, lastvals,
                          drawvars, pc, filevars, lastq>>

(***************************************************************************)
(* Draw, compute and blit opcodes.                                         *)
(***************************************************************************)
\* the mutant of Summarise: clear_rewritten() is left out
SummariseNoClear(do) ==
    IF do
    THEN /\ lastvals' = SummaryLastvals
         /\ UNCHANGED type0_reg_rewritten
    ELSE UNCHANGED <<lastvals, type0_reg_rewritten>>

\* dump_register_summary(), when do holds; nothing otherwise
Summarise(do) ==
    IF do
    THEN /\ lastvals' = SummaryLastvals
         /\ type0_reg_rewritten' = {}
    ELSE UNCHANGED <<lastvals, type0_reg_rewritten>>

\* cp_draw_indx(): draw_indx_common(), then assert(!is_64b()), then the rest
CpDrawIndx ==
    /\ pc = "decode"
    /\ \E pkt \in Menu :
           /\ OpPkt(pkt, "cp_draw_indx")
           /\ LET num_indices == Hi(dw(pkt, 1))
              IN  /\ vertices' = vertices + num_indices
                  /\ draws' = IncDraws
                  /\ \E v \in Victims(ib) : ib' = IncIb(v)
                  /\ IF is_64b
                     THEN /\ pc' = "aborted"
                          /\ out' = do_query
                          /\ lastq' = Queried(FALSE)
                          /\ UNCHANGED <<stack, lastvals, type0_reg_rewritten, draw_count,
                                         needs_wfi>>
                     ELSE /\ Summarise(num_indices > 0)
                          /\ out' = do_query \o (IF num_indices > 0 THEN SummaryOut ELSE <<>>)
                          /\ lastq' = Queried(num_indices > 0)
                          /\ draw_count' = draw_count + 1
                          /\ needs_wfi' = TRUE
                          /\ stack' = Advance(OpCount(pkt))
                          /\ UNCHANGED pc
           /\ UNCHANGED <<harness, tablevars, genvars, type0_reg_vals, type0_reg_written,
                          filevars>>

\* cp_draw_indx_2(): as cp_draw_indx(), but needs_wfi is left alone
CpDrawIndx2 ==
    /\ pc = "decode"
    /\ \E pkt \in Menu :
           /\ OpPkt(pkt, "cp_draw_indx_2")
           /\ LET num_indices == Hi(dw(pkt, 1))
              IN  /\ vertices' = vertices + num_indices
                  /\ draws' = IncDraws
                  /\ \E v \in Victims(ib) : ib' = IncIb(v)
                  /\ IF is_64b
                     THEN /\ pc' = "aborted"
                          /\ out' = do_query
                          /\ lastq' = Queried(FALSE)
                          /\ UNCHANGED <<stack, lastvals, type0_reg_rewritten, draw_count>>
                     ELSE /\ Summarise(num_indices > 0)
                          /\ out' = do_query \o (IF num_indices > 0 THEN SummaryOut ELSE <<>>)
                          /\ lastq' = Queried(num_indices > 0)
                          /\ draw_count' = draw_count + 1
                          /\ stack' = Advance(OpCount(pkt))
                          /\ UNCHANGED pc
           /\ UNCHANGED <<harness, tablevars, genvars, needs_wfi, type0_reg_vals,
                          type0_reg_written, filevars>>

\* cp_draw_indx_offset(): counts no vertices and no per-level draw
CpDrawIndxOffset ==
    /\ pc = "decode"
    /\ \E pkt \in Menu :
           /\ OpPkt(pkt, "cp_draw_indx_offset")
           /\ LET num_indices == Val(dw(pkt, 2))
              IN  /\ Summarise(num_indices > 0)
                  /\ out' = do_query \o (IF num_indices > 0 THEN SummaryOut ELSE <<>>)
                  /\ lastq' = Queried(num_indices > 0)
           /\ draw_count' = draw_count + 1
           /\ stack' = Advance(OpCount(pkt))
           /\ UNCHANGED <<harness, tablevars, genvars, needs_wfi, type0_reg_vals,
                          type0_reg_written, draws, ib, vertices, pc, filevars>>

CpRunCl ==
    /\ pc = "decode"
    /\ \E pkt \in Menu :
           /\ OpPkt(pkt, "cp_run_cl")
           /\ Summarise(TRUE)
           /\ out' = do_query \o SummaryOut
           /\ lastq' = Queried(TRUE)
           /\ draw_count' = draw_count + 1
           /\ stack' = Advance(OpCount(pkt))
           /\ UNCHANGED <<harness, tablevars, genvars, needs_wfi, type0_reg_vals,
                          type0_reg_written, draws, ib, vertices, pc, filevars>>

\* cp_exec_cs(): dump_register_summary() and nothing else
CpExecCs ==
    /\ pc = "decode"
    /\ \E pkt \in Menu :
           /\ OpPkt(pkt, "cp_exec_cs")
           /\ Summarise(TRUE)
           /\ out' = SummaryOut
           /\ stack' = Advance(OpCount(pkt))
           /\ UNCHANGED <<harness, tablevars, genvars, needs_wfi, type0_reg_vals,
                          type0_reg_written, drawvars, pc, filevars, lastq>>

CpBlit ==
    /\ pc = "decode"
    /\ \E pkt \in Menu :
           /\ OpPkt(pkt, "cp_blit")
           /\ Summarise(TRUE)
           /\ out' = do_query \o SummaryOut
           /\ lastq' = Queried(TRUE)
           /\ draw_count' = draw_count + 1
           /\ stack' = Advance(OpCount(pkt))
           /\ UNCHANGED <<harness, tablevars, genvars, needs_wfi, type0_reg_vals,
                          type0_reg_written, draws, ib, vertices, pc, filevars>>

\* cp_event_write(): the event BLIT is a draw boundary when gpu_id > 500
CpEventWrite ==
    /\ pc = "decode"
    /\ \E pkt \in Menu :
           /\ OpPkt(pkt, "cp_event_write")
           /\ LET name == rnn_enumname(Val(dw(pkt, 0)))
                  event == printl(2, [e |-> "event", name |-> name])
              IN  IF (name # "NULL") /\ (gpu_id > 500) /\ (name = "BLIT")
                  THEN /\ Summarise(TRUE)
                       /\ out' = event \o do_query \o SummaryOut
                       /\ lastq' = Queried(TRUE)
                       /\ draw_count' = draw_count + 1
                  ELSE /\ out' = event
                       /\ UNCHANGED <<lastvals, type0_reg_rewritten, lastq, draw_count>>
           /\ stack' = Advance(OpCount(pkt))
           /\ UNCHANGED <<harness, tablevars, genvars, needs_wfi, type0_reg_vals,
                          type0_reg_written, draws, ib, vertices, pc, filevars>>

Next ==
    \/ StartFile
    \/ SectGpuId
    \/ SectGpuAddr
    \/ SectBufferContents
    \/ SectCmdstream
    \/ EndFile
    \/ LoopExit
    \/ PktType0
    \/ PktType4
    \/ PktType2
    \/ PktBad
    \/ InitExit
    \/ CpNop
    \/ CpUnhandled
    \/ CpWfi
    \/ CpRmw
    \/ CpIndirect
    \/ CpLoadState
    \/ CpDrawIndx
    \/ CpDrawIndx2
    \/ CpDrawIndxOffset
    \/ CpRunCl
    \/ CpExecCs
    \/ CpBlit
    \/ CpSetConst
    \/ CpEventWrite

Spec == Init /\ [][Next]_vars

(***************************************************************************)
(* The header classifier on its own: a header is drawn from a sample of    *)
(* the 32-bit values and classified as dump_commands() classifies it.      *)
(***************************************************************************)
\* the headers sampled.  Tags: the top four bits, the two parity tags, the
\* legacy tags and others; His: bits 16..27; Los: bits 0..15
HeaderSamples ==
    LET Tags == {0, 4, 5, 7, 8, 12}
        His == {0, 1, 2, 3, 127, 128, 129, 130, 255, 256, 257, 2047, 2048, 2049, 2304, 4095}
        Los == {0, 1, 2, 3, 127, 128, 129, 131, 256, 384, 769, 32768, 32769, 32770, 65535}
    IN  {<<4096 * t + h, l>> : t \in Tags, h \in His, l \in Los}

InitClassify ==
    /\ StaticsInit
    /\ buffers = [i \in 0..MaxBuffers |-> NoBuffer]
    /\ nbuffers = 0
    /\ cfg \in {c \in Cfgs : c.class = "regs"}
    /\ hdr \in HeaderSamples
    /\ kind = "none"
    /\ rq = NoLookup

ClassifyHeader ==
    /\ kind = "none"
    /\ kind' = Classify(hdr)
    /\ UNCHANGED <<hdr, rq, vsc_pipe_data, vfd_fetch_state, gpuaddr_lo, fx, tablevars, mem,
                   genvars, type0_reg, needs_wfi, regvars, lastvals,
                   drawvars, current_draw_count, stack, pc, filevars, npkts, op, out,
                   lastq>>

SpecClassify == InitClassify /\ [][ClassifyHeader]_vars

(***************************************************************************)
(* The address resolver on its own: a table of regions as a capture can    *)
(* register them, and the four lookups.                                    *)
(***************************************************************************)
\* the host pointers and GPU addresses looked up
HostProbes == {100, 256, 260, 264, 272, 512, 516, 520, 768, 780, 784}

GpuProbes == {0, 4, 8, 16, 4092, 4096, 4100, 4104, 4108, 4112, 4116, 4120}

\* Regions: the regions of the tables explored, with GPU ranges that overlap
\* and one that holds GPU address 0.  Section buffers are separate
\* allocations: live regions do not share host memory
InitResolver ==
    /\ StaticsInit
    /\ nbuffers \in 0..MaxBuffers
    /\ LET Regions == [hostptr : {256, 512, 768}, len : {8, 16}, gpuaddr : {0, 4096, 4104}]
       IN  buffers \in [0..MaxBuffers -> Regions \cup {NoBuffer}]
    /\ \A i \in 0..MaxBuffers : (buffers[i] = NoBuffer) <=> (i >= nbuffers)
    /\ \A i, j \in 0..(nbuffers - 1) : (i # j) => (buffers[i].hostptr # buffers[j].hostptr)
    /\ cfg \in {c \in Cfgs : c.class = "regs"}
    /\ hdr = ZERO
    /\ kind = "none"
    /\ rq = NoLookup

Lookup(name, arg, mid, res) ==
    /\ rq' = [op |-> name, arg |-> arg, mid |-> mid, res |-> res]
    /\ UNCHANGED <<hdr, kind, vsc_pipe_data, vfd_fetch_state, gpuaddr_lo, fx, tablevars, mem,
                   genvars, type0_reg, needs_wfi, regvars, lastvals,
                   drawvars, current_draw_count, stack, pc, filevars, npkts, op, out,
                   lastq>>

CallGpuaddr == \E p \in HostProbes : Lookup("gpuaddr", p, 0, gpuaddr(p))

CallGpubaseaddr == \E ga \in GpuProbes : Lookup("gpubaseaddr", ga, 0, gpubaseaddr(ga))

CallHostptr == \E ga \in GpuProbes : Lookup("hostptr", ga, 0, hostptr(ga))

CallHostlen == \E ga \in GpuProbes : Lookup("hostlen", ga, 0, hostlen(ga))

\* hostptr(gpuaddr(p))
RoundTrip == \E p \in HostProbes : Lookup("roundtrip", p, gpuaddr(p), hostptr(gpuaddr(p)))

NextResolver ==
    \/ CallGpuaddr
    \/ CallGpubaseaddr
    \/ CallHostptr
    \/ CallHostlen
    \/ RoundTrip

SpecResolver == InitResolver /\ [][NextResolver]_vars

(***************************************************************************)
(* The special-register handlers (cffdump.c 397-559) on their own: with    *)
(* one region registered, RD_GPU_ID selects the generation and the         *)
(* handlers of the selected table are called as dump_register() calls      *)
(* them.  A handler is an operator on the side state st, the record        *)
(* [vsc, vfd, lo] of vsc_pipe_data, vfd_fetch_state and gpuaddr_lo: it     *)
(* answers the side state it leaves, the host pointer it resolved (0 for   *)
(* none) and the number of dwords it dumped.  An index past the end of a   *)
(* side table is an out-of-bounds access: the store lands in memory this   *)
(* model does not hold, and past is what the read finds there.             *)
(***************************************************************************)
\* handler calls in a run
MaxCalls == 2

\* the special-register tables, as far as their handlers keep side state: the
\* handler and the unit index as the register's name spells it, "[0]" for
\* unit 0 and "[0x<hex>]" for the others; digits is empty for a name without
\* index
type0_reg_table(table) ==
    LET Units(last) ==
            {[hex |-> FALSE, digits |-> <<0>>]}
               \cup {[hex |-> TRUE, digits |-> <<d>>] : d \in 1..(IF last < 15 THEN last ELSE 15)}
               \cup {[hex |-> TRUE, digits |-> <<1, d>>] : d \in 0..(last - 16)}
        Of(fxns, names) == {[fxn |-> f, name |-> n] : f \in fxns, n \in names}
        vsc == Of({"reg_vsc_pipe_config", "reg_vsc_pipe_data_address",
                   "reg_vsc_pipe_data_length"}, Units(7))
        vfd(last) == Of({"reg_vfd_fetch_instr_0_x", "reg_vfd_fetch_instr_1_x"}, Units(last))
    IN  CASE table = "reg_a2xx" -> vsc
          [] table = "reg_a3xx" -> vsc \cup vfd(15)
          [] table = "reg_a4xx" -> vfd(31)
          [] table = "reg_a5xx" ->
                Of({"reg_dump_gpuaddr_lo", "reg_dump_gpuaddr_hi"},
                   {[hex |-> FALSE, digits |-> <<>>]})
          [] OTHER -> {}

\* sscanf(name, "..._%x", &idx) || sscanf(name, "...[0x%x]...", &idx) ||
\* sscanf(name, "...[%d]...", &idx): no name of the tables has the first
\* form; the second reads the digits behind "0x" in base 16, the third reads
\* them in base 10
sscanf_idx(name) ==
    LET base == IF name.hex THEN 16 ELSE 10
        v[i \in 0..Len(name.digits)] ==
            IF i = 0 THEN 0 ELSE base * v[i - 1] + name.digits[i]
    IN  v[Len(name.digits)]

reg_vsc_pipe_config(st, name, dword, past) ==
    LET idx == sscanf_idx(name)
    IN  [side |-> IF idx \in DOMAIN st.vsc
                  THEN [st EXCEPT !.vsc[idx].config = dword] ELSE st,
         buf |-> 0, sizedwords |-> 0]

reg_vsc_pipe_data_address(st, name, dword, past) ==
    LET idx == sscanf_idx(name)
    IN  [side |-> IF idx \in DOMAIN st.vsc
                  THEN [st EXCEPT !.vsc[idx].address = dword] ELSE st,
         buf |-> 0, sizedwords |-> 0]

\* the mutant of reg_vsc_pipe_data_length: the address is taken from unit 0
reg_vsc_pipe_data_length_unit0(st, name, dword, past) ==
    LET idx == sscanf_idx(name)
        buf == IF quiet(3, summary) THEN 0 ELSE hostptr(Val(st.vsc[0].address))
        n == Val(dword) \div 4
    IN  [side |-> IF idx \in DOMAIN st.vsc
                  THEN [st EXCEPT !.vsc[idx].length = dword] ELSE st,
         buf |-> buf,
         sizedwords |-> IF buf = 0 THEN 0 ELSE IF n < 16 THEN n ELSE 16]

\* the last register of the triplet: dumps the pipe data at the address an
\* earlier write recorded
reg_vsc_pipe_data_length(st, name, dword, past) ==
    LET idx == sscanf_idx(name)
        address == IF idx \in DOMAIN st.vsc THEN st.vsc[idx].address ELSE past.address
        buf == IF quiet(3, summary) THEN 0 ELSE hostptr(Val(address))
        n == Val(dword) \div 4
    IN  [side |-> IF idx \in DOMAIN st.vsc
                  THEN [st EXCEPT !.vsc[idx].length = dword] ELSE st,
         buf |-> buf,
         sizedwords |-> IF buf = 0 THEN 0 ELSE IF n < 16 THEN n ELSE 16]

\* vfd_fetch_state[idx] = *(vfd_fetch_state_t *)&dword
reg_vfd_fetch_instr_0_x(st, name, dword, past) ==
    LET idx == sscanf_idx(name)
    IN  [side |-> IF idx \in DOMAIN st.vfd
                  THEN [st EXCEPT !.vfd[idx] = [fetchsize |-> Bits(dword, 0, 7),
                                                bufstride |-> Bits(dword, 7, 10)]]
                  ELSE st,
         buf |-> 0, sizedwords |-> 0]

reg_vfd_fetch_instr_1_x(st, name, dword, past) ==
    LET idx == sscanf_idx(name)
        fetchsize == IF idx \in DOMAIN st.vfd THEN st.vfd[idx].fetchsize ELSE past.fetchsize
        buf == IF quiet(3, summary) THEN 0 ELSE hostptr(Val(dword))
    IN  [side |-> st, buf |-> buf, sizedwords |-> IF buf = 0 THEN 0 ELSE fetchsize + 1]

\* dump_gpuaddr(gpuaddr, level)
dump_gpuaddr(st, ga) ==
    LET buf == IF quiet(3, summary) THEN 0 ELSE hostptr(ga)
    IN  [side |-> st, buf |-> buf, sizedwords |-> IF buf = 0 THEN 0 ELSE 64]

reg_dump_gpuaddr_lo(st, name, dword, past) ==
    [side |-> [st EXCEPT !.lo = dword], buf |-> 0, sizedwords |-> 0]

reg_dump_gpuaddr_hi(st, name, dword, past) == dump_gpuaddr(st, Addr64(st.lo, dword))

\* a capture with one region, and runs with and without --query
InitFxn ==
    /\ StaticsInit
    /\ nbuffers = 1
    /\ buffers = [i \in 0..MaxBuffers |->
                    IF i = 0 THEN [hostptr |-> HostStride, len |-> BufLen, gpuaddr |-> GPU_A]
                    ELSE NoBuffer]
    /\ cfg \in {c \in Cfgs : c.class \in {"regs", "tex"}}
    /\ hdr = ZERO
    /\ kind = "none"
    /\ rq = NoLookup

\* type0_reg[idx].fxn: the call through the table's function pointer
fxn(f, st, name, dword, past) ==
    CASE f = "reg_vsc_pipe_config" -> reg_vsc_pipe_config(st, name, dword, past)
      [] f = "reg_vsc_pipe_data_address" -> reg_vsc_pipe_data_address(st, name, dword, past)
      [] f = "reg_vsc_pipe_data_length" -> reg_vsc_pipe_data_length(st, name, dword, past)
      [] f = "reg_vfd_fetch_instr_0_x" -> reg_vfd_fetch_instr_0_x(st, name, dword, past)
      [] f = "reg_vfd_fetch_instr_1_x" -> reg_vfd_fetch_instr_1_x(st, name, dword, past)
      [] f = "reg_dump_gpuaddr_lo" -> reg_dump_gpuaddr_lo(st, name, dword, past)
      [] f = "reg_dump_gpuaddr_hi" -> reg_dump_gpuaddr_hi(st, name, dword, past)

\* type0_reg[idx].fxn(type0_reg[idx].regname, dword, level), for an entry of
\* the selected table.  The dwords written are a small length and the
\* address of the region; the high word of an address is 0.  What lies past
\* a side table matters to an index of 7 and above only.
CallFxn ==
    /\ type0_reg # "NULL"
    /\ fx.calls < MaxCalls
    /\ \E e \in type0_reg_table(type0_reg), dword \in {U32(8), U32(GPU_A)} :
          \E past \in IF sscanf_idx(e.name) \in DOMAIN vsc_pipe_data
                      THEN {[address |-> ZERO, fetchsize |-> 0]}
                      ELSE [address : {ZERO, U32(GPU_A)}, fetchsize : {0, 3}] :
             LET val == IF e.fxn = "reg_dump_gpuaddr_hi" THEN ZERO ELSE dword
                 r == fxn(e.fxn,
                          [vsc |-> vsc_pipe_data, vfd |-> vfd_fetch_state, lo |-> gpuaddr_lo],
                          e.name, val, past)
             IN  /\ vsc_pipe_data' = r.side.vsc
                 /\ vfd_fetch_state' = r.side.vfd
                 /\ gpuaddr_lo' = r.side.lo
                 /\ fx' = [fxn |-> e.fxn, name |-> e.name,
                           idx |-> IF e.name.digits = <<>> THEN 0 ELSE sscanf_idx(e.name),
                           val |-> val, past |-> past, buf |-> r.buf,
                           sizedwords |-> r.sizedwords, calls |-> fx.calls + 1]
    /\ UNCHANGED <<hdr, kind, rq, tablevars, mem, genvars, type0_reg, needs_wfi, regvars,
                   lastvals, drawvars, current_draw_count, stack, pc, filevars, npkts, op,
                   out, lastq>>

NextFxn ==
    \/ StartFile
    \/ SectGpuId
    \/ CallFxn

SpecFxn == InitFxn /\ [][NextFxn]_vars

(***************************************************************************)
(* Claims about the header classifier (SpecClassify).                      *)
(***************************************************************************)
\* the fields of hdr, read from its two halves without the model's macros
HdrTag == Hi(hdr) \div 4096

HdrT4Offset == (Hi(hdr) % 2048) * 256 + (Lo(hdr) \div 256)

HdrT4Size == Lo(hdr) % 128

HdrT7Opcode == Hi(hdr) % 128

HdrT7Size == Lo(hdr) % 16384

\* a stored check bit of a type4 header differs from the odd parity of its field
T4ParityBroken ==
    \/ (Hi(hdr) \div 2048) % 2 # OddParity(HdrT4Offset)
    \/ (Lo(hdr) \div 128) % 2 # OddParity(HdrT4Size)

\* a stored check bit of a type7 header differs from the odd parity of its field
T7ParityBroken ==
    \/ (Hi(hdr) \div 128) % 2 # OddParity(HdrT7Opcode)
    \/ (Lo(hdr) \div 32768) % 2 # OddParity(HdrT7Size)

\* C2: a header with the type4 (or type7) tag in its top four bits is never
\* classified type4 (type7) when a stored check bit differs from the odd
\* parity of the register index / opcode or of the size it protects.
C2_ParityNecessary ==
    /\ (HdrTag = 4 /\ T4ParityBroken) => kind # "type4"
    /\ (HdrTag = 7 /\ T7ParityBroken) => kind # "type7"

\* C2 witness: a type4-tagged header whose index check bit is wrong, with a
\* register index that has bits above bit 15, has been classified: as "bad"
C2_Witness ==
    /\ HdrTag = 4
    /\ HdrT4Offset >= 65536
    /\ (Hi(hdr) \div 2048) % 2 # OddParity(HdrT4Offset)
    /\ kind = "bad"

(***************************************************************************)
(* Claims about the address resolver (SpecResolver).                       *)
(***************************************************************************)
\* the registered regions whose GPU range holds ga / whose host range holds p
GpuHits(ga) ==
    {i \in 0..(nbuffers - 1) :
        buffers[i].gpuaddr <= ga /\ ga < buffers[i].gpuaddr + buffers[i].len}

HostHits(p) ==
    {i \in 0..(nbuffers - 1) :
        buffers[i].hostptr <= p /\ p < buffers[i].hostptr + buffers[i].len}

Lowest(S) == CHOOSE i \in S : \A j \in S : i <= j

\* what a lookup answers when it answers from the lowest-indexed region that
\* contains the address, and 0 when no region does
Answer(name, arg) ==
    IF name = "gpuaddr"
    THEN IF HostHits(arg) = {} THEN 0
         ELSE LET b == buffers[Lowest(HostHits(arg))] IN b.gpuaddr + (arg - b.hostptr)
    ELSE IF GpuHits(arg) = {} THEN 0
         ELSE LET b == buffers[Lowest(GpuHits(arg))]
              IN  CASE name = "hostptr" -> b.hostptr + (arg - b.gpuaddr)
                    [] name = "gpubaseaddr" -> b.gpuaddr
                    [] name = "hostlen" -> b.len + b.gpuaddr - arg

Lookups == {"gpuaddr", "gpubaseaddr", "hostptr", "hostlen"}

\* C3 as stated: for every host pointer p inside some registered region,
\* hostptr(gpuaddr(p)) is p.
C3_RoundTrip_Stated ==
    (rq.op = "roundtrip" /\ HostHits(rq.arg) # {}) => rq.res = rq.arg

\* C3 amended: for every host pointer p inside a registered region R, such
\* that gpuaddr(p) is not 0 and no region registered before R holds
\* gpuaddr(p) in its GPU range, hostptr(gpuaddr(p)) is p.
C3_RoundTrip ==
    (/\ rq.op = "roundtrip"
     /\ HostHits(rq.arg) # {}
     /\ rq.mid # 0
     /\ \A i \in GpuHits(rq.mid) : i >= Lowest(HostHits(rq.arg)))
    => rq.res = rq.arg

\* C3 witness: a round trip through the first of two regions whose GPU
\* ranges both hold gpuaddr(p), at a pointer that is not the region's start
C3_Witness ==
    /\ rq.op = "roundtrip"
    /\ HostHits(rq.arg) = {0}
    /\ GpuHits(rq.mid) = {0, 1}
    /\ rq.arg # buffers[0].hostptr
    /\ rq.res = rq.arg

\* C4 as stated: every lookup answers from the lowest-indexed region that
\* contains the address, and 0 when none does.
C4_FirstMatch_Stated ==
    rq.op \in Lookups => rq.res = Answer(rq.op, rq.arg)

\* C4 amended: gpuaddr() for every host pointer, and hostptr(), gpubaseaddr()
\* and hostlen() for every GPU address other than 0, answer from the
\* lowest-indexed region that contains the address, and 0 when none does;
\* for GPU address 0 the three answer 0 whatever the regions are.
C4_FirstMatch ==
    /\ (rq.op \in Lookups /\ (rq.op = "gpuaddr" \/ rq.arg # 0))
           => rq.res = Answer(rq.op, rq.arg)
    /\ (rq.op \in Lookups \ {"gpuaddr"} /\ rq.arg = 0) => rq.res = 0

\* C4 witness: an address held by two regions with different answers has
\* been looked up, and the answer is the first region's
C4_Witness ==
    /\ rq.op = "hostptr"
    /\ GpuHits(rq.arg) = {0, 1}
    /\ rq.res = buffers[0].hostptr + (rq.arg - buffers[0].gpuaddr)
    /\ rq.res # buffers[1].hostptr + (rq.arg - buffers[1].gpuaddr)

(***************************************************************************)
(* Claims about the decoder (Spec).  A step of dump_commands() reads the   *)
(* packet at Cur; the formulas below read the packet back from memory and  *)
(* take its fields from the raw halves of its words.                       *)
(***************************************************************************)
\* the step is an iteration of the loop of dump_commands()
Iterates == pc = "decode" /\ Top.left > 0 /\ Cur \in DOMAIN mem'

\* the i-th word of the packet the step reads, the header being word 0
Word(i) == mem'[Cur + 4 * i]

\* operand words and first register of a register-write header
RegWriteCount(h, t) == IF t = "type0" THEN (Hi(h) % 16384) + 1 ELSE Lo(h) % 128

RegWriteBase(h, t) ==
    IF t = "type0" THEN Lo(h) % 32768 ELSE (Hi(h) % 2048) * 256 + (Lo(h) \div 256)

\* the cursor of the same dump_commands() call after the step
CursorAfter == stack'[Len(stack)].dwords

SameCall == Len(stack') = Len(stack)

Stored(r, w) ==
    /\ r \in DOMAIN type0_reg_vals'
    /\ type0_reg_vals'[r] = w
    /\ r \in type0_reg_written'
    /\ r \in type0_reg_rewritten'

\* C1 as stated: when dump_commands classifies a header as a type0 or type4
\* register write with k operand words, the cursor advances by k + 1 dwords
\* and each operand word is stored as the value of one register, whose
\* written and written-since-last-draw bits are set afterwards.
C1_RegWrite_Stated ==
    [][(Iterates /\ op' \in {"type0", "type4"}) =>
          LET k == RegWriteCount(Word(0), op')
              base == RegWriteBase(Word(0), op')
          IN  /\ SameCall
              /\ CursorAfter = Cur + 4 * (k + 1)
              /\ \A i \in 0..(k - 1) : Stored(base + i, Word(i + 1))]_vars

\* dwords in an opcode packet, from its header: type3 has 11 in the top bits
PktDwords(h) ==
    IF Hi(h) \div 16384 = 3 THEN (Hi(h) % 16384) + 2 ELSE (Lo(h) % 16384) + 1

\* the address operand of the indirect-buffer packet the step reads
IbAddr == IF gpu_id >= 500 THEN Addr64(Word(1), Word(2)) ELSE Val(Word(1))

RegFileSame ==
    /\ type0_reg_vals' = type0_reg_vals
    /\ type0_reg_written' = type0_reg_written
    /\ type0_reg_rewritten' = type0_reg_rewritten
    /\ lastvals' = lastvals

\* C5: when the address of an indirect-buffer opcode lies in no registered
\* region, cp_indirect prints a diagnostic, starts no nested dump_commands,
\* leaves ib and the register file as they were, and the enclosing
\* dump_commands goes on at the packet after the indirect-buffer packet.
C5_UnresolvedIb ==
    [][(Iterates /\ op' = "cp_indirect" /\ GpuHits(IbAddr) = {}) =>
          /\ out' = <<Diag("could not find")>>
          /\ SameCall
          /\ ib' = ib
          /\ draws' = draws
          /\ RegFileSame
          /\ pc' = "decode"
          /\ CursorAfter = Cur + 4 * PktDwords(Word(0))
          /\ stack'[Len(stack)].left = Top.left - PktDwords(Word(0))]_vars

\* C5 witness: inside a capture with a registered region, cp_indirect has
\* reported an address no region holds, and the enclosing stream has dwords
\* left to decode
C5_Witness ==
    /\ pc = "decode"
    /\ op = "cp_indirect"
    /\ out = <<Diag("could not find")>>
    /\ nbuffers > 0
    /\ Top.left > 0

\* the step returns from a nested dump_commands() to cp_indirect
ReturnsToIb == pc = "decode" /\ op' \in {"return", "bad"} /\ Top.ret = "ib"

\* C6 as stated: when a nested dump_commands returns, ib is what it was
\* before the call, and the caller's level N still has the draws[N] it had
\* at the call, at every nesting depth.
C6_Restore_Stated ==
    [][ReturnsToIb =>
          /\ ib' = Top.ib0
          /\ (Top.ib0 \in 0..2) => (draws'[Top.ib0] = Top.draws0[Top.ib0])]_vars

\* the index count of the draw packet the step reads
IndexCount == IF op' = "cp_draw_indx_offset" THEN Val(Word(3)) ELSE Hi(Word(2))

HasSummary(o) == \E i \in DOMAIN o : o[i].e = "summary"

QueryLinesOf(o) == {o[i] : i \in {j \in DOMAIN o : o[j].e = "query"}}

DrawHandlers == {"cp_draw_indx", "cp_draw_indx_2", "cp_draw_indx_offset"}

\* C7 as stated: a CP_DRAW_INDX, CP_DRAW_INDX_2 or CP_DRAW_INDX_OFFSET whose
\* index count is 0 adds exactly one to draw_count, prints no register
\* summary, and leaves every written-since-last-draw bit and every
\* prior-draw value as it was.
C7_DummyDraw_Stated ==
    [][(Iterates /\ op' \in DrawHandlers /\ IndexCount = 0) =>
          /\ draw_count' = draw_count + 1
          /\ ~HasSummary(out')
          /\ type0_reg_rewritten' = type0_reg_rewritten
          /\ lastvals' = lastvals]_vars

\* the opcodes that evaluate the query list
QueryHandlers == DrawHandlers \cup {"cp_run_cl", "cp_blit"}

Regs(lines) == {l.reg : l \in lines}

\* C8: when the query list is evaluated at two consecutive draws with no
\* register write between them, the second evaluation reports the same
\* registers with the same values as the first, and if the first draw
\* printed a register summary the second evaluation shows the
\* written-since-last-draw marker for no register.
C8_QueryIdempotent ==
    [][(Iterates /\ op' \in QueryHandlers /\ ~lastq.dirty) =>
          LET first == {lastq.lines[i] : i \in DOMAIN lastq.lines}
              second == QueryLinesOf(out')
          IN  /\ Regs(first) = Regs(second)
              /\ \A a \in first, b \in second : (a.reg = b.reg) => (a.val = b.val)
              /\ lastq.summ => \A b \in second : ~b.rewritten]_vars

\* C8 witness: a second evaluation, with no write since the first, which
\* printed a summary, has reported a query register, without the marker
C8_Witness ==
    /\ op \in QueryHandlers
    /\ lastq.again
    /\ lastq.after
    /\ \E l \in QueryLinesOf(out) : l.reg = QueryReg /\ ~l.rewritten /\ l.val # ZERO

\* the opcodes at which accumulated register state is summarised
BoundaryHandlers == QueryHandlers \cup {"cp_exec_cs"}

QueryRegs == {cfg.query[i] : i \in DOMAIN cfg.query}

\* C9 as stated: at every draw, compute or blit opcode that prints the
\* register summary, each query register written since the previous
\* boundary is shown by that opcode's query evaluation with its
\* written-since-last-draw marker, and draw_count is incremented after.
C9_QueryBeforeSummary_Stated ==
    [][(Iterates /\ op' \in BoundaryHandlers /\ HasSummary(out')) =>
          /\ \A r \in QueryRegs \cap type0_reg_written \cap type0_reg_rewritten :
                \E l \in QueryLinesOf(out') : l.reg = r /\ l.rewritten
          /\ draw_count' = draw_count + 1]_vars

\* C10 as stated: decoding the stream 0x72000003, 1, 2 classifies the first
\* word as a type0 register write of two words at register 0, and leaves
\* register 0 = 1 and register 1 = 2, both written and written since the
\* last draw.
C10_Scenario_Stated ==
    [][(/\ Iterates
        /\ Top.ret = "file"
        /\ Top.left = 3
        /\ Word(0) = HDR_72000003) =>
          /\ op' = "type0"
          /\ Stored(0, U32(1))
          /\ Stored(1, U32(2))]_vars

\* 0x00010000: type0, two operand words, base register 0
HDR_00010000 == <<1, 0>>

\* C10 amended: decoding the stream 0x00010000, 1, 2 classifies the first
\* word as a type0 register write of two words at register 0, leaves
\* register 0 = 1 and register 1 = 2, both written and written since the
\* last draw, and uses up the stream; the word 0x72000003 is of no packet
\* kind: dump_commands gives up the stream at it and writes no register.
C10_Scenario ==
    [][(/\ Iterates
        /\ Top.ret = "file"
        /\ Top.left = 3) =>
          /\ (Word(0) = HDR_00010000 /\ Word(1) = U32(1) /\ Word(2) = U32(2)) =>
                /\ op' = "type0"
                /\ Stored(0, U32(1))
                /\ Stored(1, U32(2))
                /\ stack'[Len(stack)].left = 0
          /\ (Word(0) = HDR_72000003) =>
                /\ op' = "bad"
                /\ RegFileSame
                /\ stack' = <<>>]_vars

\* C10 witness: the three-dword stream 0x00010000, 1, 2 has been decoded
C10_Witness ==
    /\ pc = "decode"
    /\ op = "type0"
    /\ Len(stack) = 1
    /\ Top.left = 0
    /\ (Top.dwords - 12) \in DOMAIN mem
    /\ mem[Top.dwords - 12] = HDR_00010000
    /\ type0_reg_vals[0] = U32(1)
    /\ type0_reg_vals[1] = U32(2)
    /\ {0, 1} \subseteq type0_reg_rewritten

(***************************************************************************)
(* Claims about state loads, corrupt streams and resets (Spec).            *)
(***************************************************************************)
\* the stride the texture tables are documented to have: 2/2/4 dwords a
\* sampler and 4/8/12 a constant, on generation 300, 400 and 500 or later
DocStride(samp) ==
    IF gpu_id < 400 THEN (IF samp THEN 2 ELSE 4)
    ELSE IF gpu_id < 500 THEN (IF samp THEN 2 ELSE 8)
    ELSE (IF samp THEN 4 ELSE 12)

\* the texture table loops the step ran
TexLoops == {out'[i] : i \in {j \in DOMAIN out' : out'[j].e = "tex"}}

\* C11 as stated: when cp_load_state decodes a texture sampler or texture
\* constant table on a trace of generation 300 or later, every unit starts
\* where the one before it ended and takes the documented stride, and after
\* n units the cursor is n times that stride past the start of the table.
C11_TexStride_Stated ==
    [][(Iterates /\ op' = "cp_load_state" /\ gpu_id >= 300) =>
          \A t \in TexLoops :
              LET stride == DocStride(t.samp)
              IN  /\ \A u \in DOMAIN t.loop.units :
                        /\ t.loop.units[u].n = stride
                        /\ t.loop.units[u].at = (u - 1) * stride
                  /\ t.loop.cursor = t.loop.iters * stride]_vars

\* the steps that decode a register-write packet, and an opcode packet
RegWriteOps == {"type0", "type4"}

OpcodeOps ==
    {"NULL", "cp_nop", "cp_wfi", "cp_rmw", "cp_indirect", "cp_load_state",
     "cp_draw_indx", "cp_draw_indx_2", "cp_draw_indx_offset", "cp_run_cl",
     "cp_exec_cs", "cp_blit"}

\* dwords the packet the step reads declares, header included
DeclaredDwords ==
    IF op' \in RegWriteOps THEN RegWriteCount(Word(0), op') + 1 ELSE PktDwords(Word(0))

\* the step gave up the stream it was decoding, and said so
StreamAborted ==
    /\ Len(stack') < Len(stack)
    /\ \E i \in DOMAIN out' : out'[i].e = "diag"

\* C12 as stated: a packet whose declared size exceeds the dwords left in the
\* buffer given to dump_commands aborts the decoding of the stream with a
\* diagnostic, and nothing of it is written into the register file.
C12_NoOverread_Stated ==
    [][(Iterates /\ op' \in RegWriteOps \cup OpcodeOps /\ DeclaredDwords > Top.left) =>
          (StreamAborted /\ RegFileSame)]_vars

\* a dump_commands() call still active after the step has dwords to decode
DecodingGoesOn == \E i \in DOMAIN stack' : stack'[i].left > 0

\* C13 as stated: a dword that matches no header encoding, at any nesting
\* depth, is reported and ends the decoding of the whole top-level stream:
\* no enclosing buffer is left with packets that will still be decoded.
C13_BadHeaderAborts_Stated ==
    [][(Iterates /\ op' = "bad") =>
          /\ \E i \in DOMAIN out' : out'[i].e = "diag"
          /\ ~DecodingGoesOn]_vars

\* C14 as stated: nothing a command stream holds terminates the run: the
\* process is never ended by an assertion or a fault while it decodes.
C14_NoAbort_Stated == pc # "aborted"

\* C15 as stated: when handle_file starts on a capture file the register
\* file, the prior-draw values, the region table, the draw counters, the
\* vertex counter, the nesting level, the needs-barrier flag and the
\* generation context are as they are when the program starts.
C15_FileReset_Stated ==
    [][(pc = "idle" /\ op' = "handle_file") =>
          /\ type0_reg_vals' = <<>>
          /\ type0_reg_written' = {}
          /\ type0_reg_rewritten' = {}
          /\ lastvals' = <<>>
          /\ nbuffers' = 0
          /\ draw_count' = 0
          /\ draws' = [i \in 0..2 |-> 0]
          /\ vertices' = 0
          /\ ib' = 0
          /\ needs_wfi' = FALSE
          /\ gpu_id' = 220
          /\ type0_reg' = "NULL"]_vars

\* C16: a type3 or type7 packet whose opcode has no routine in type3_op[]
\* moves the cursor by its declared size plus the header word, leaves the
\* decoder in the same dump_commands call ready for the next packet, and
\* changes neither the register file, the dirty bits, the draw counters, the
\* vertex counter, the nesting level nor the needs-barrier flag.
C16_UnmappedOpcode ==
    [][(Iterates /\ op' = "NULL") =>
          /\ SameCall
          /\ pc' = "decode"
          /\ CursorAfter = Cur + 4 * PktDwords(Word(0))
          /\ RegFileSame
          /\ draws' = draws
          /\ draw_count' = draw_count
          /\ vertices' = vertices
          /\ ib' = ib
          /\ needs_wfi' = needs_wfi]_vars

\* C16 witness: an unmapped opcode of one operand word has been skipped
\* while registers were written since the last draw and draws were counted
C16_Witness ==
    /\ op = "NULL"
    /\ pc = "decode"
    /\ Top.count = 2
    /\ type0_reg_rewritten # {}
    /\ draw_count > 0

\* the steps that hand a register write to the special-register table
RegDispatchOps == RegWriteOps \cup {"cp_rmw"}

\* C17: a table of special registers with a name the register database
\* does not hold is never in use while the run goes on: selecting it ends
\* the run, and no register write is dispatched against it.
C17_UnresolvedTableFatal ==
    [][/\ (type0_reg' \in cfg.unresolved) => (pc' = "exited")
       /\ (Iterates /\ op' \in RegDispatchOps) => (type0_reg' \notin cfg.unresolved)]_vars

\* C17 witness: RD_GPU_ID selected the a5xx table, one of its names did not
\* resolve, and the run has ended
C17_Witness ==
    /\ op = "RD_GPU_ID"
    /\ type0_reg = "reg_a5xx"
    /\ "reg_a5xx" \in cfg.unresolved
    /\ pc = "exited"

\* a prior-draw value, 0 for a register never reported
LastvalIn(f, r) == IF r \in DOMAIN f THEN f[r] ELSE ZERO

\* the lines of the register summary the step printed
SummaryLinesOf(o) == UNION {o[i].lines : i \in {j \in DOMAIN o : o[j].e = "summary"}}

TouchedRegs == DOMAIN type0_reg_vals \cup DOMAIN lastvals \cup DOMAIN lastvals'

\* C18: a register summary marks a register changed iff its value differs
\* from its prior-draw value; the summary sets the prior-draw value of every
\* register it reports to the current value and of no other register; and
\* a step that prints no summary, within a file, changes no prior-draw value.
C18_PriorDrawValue ==
    [][(pc # "idle") =>
          LET lines == SummaryLinesOf(out')
          IN  /\ \A l \in lines :
                    /\ l.changed <=> (reg_val(l.reg) # LastvalIn(lastvals, l.reg))
                    /\ LastvalIn(lastvals', l.reg) = reg_val(l.reg)
              /\ \A r \in TouchedRegs \ Regs(lines) :
                    LastvalIn(lastvals', r) = LastvalIn(lastvals, r)]_vars

\* C18 witness: a summary has reported a register as unchanged, its value
\* being the non-zero one a summary before it had recorded
C18_Witness ==
    /\ op \in BoundaryHandlers
    /\ \E l \in SummaryLinesOf(out) :
          /\ ~l.changed
          /\ l.val # ZERO
          /\ LastvalIn(lastvals, l.reg) = l.val

\* C19 as stated: every register index a type0 or type4 run stores to,
\* counting up from the base across the operand words, is within 0..0xffff
\* and within the register count of the selected generation.
C19_RegIndexInBounds_Stated ==
    [][(Iterates /\ op' \in RegWriteOps) =>
          LET k == RegWriteCount(Word(0), op')
              base == RegWriteBase(Word(0), op')
          IN  \A i \in 0..(k - 1) : (base + i <= \hFFFF) /\ (base + i <= regcnt)]_vars

\* C20 as stated: every iteration of the loop of dump_commands, on a packet
\* that is not an indirect-buffer reference, either leaves the loop or moves
\* the cursor forward by at least one dword.
C20_LoopAdvances_Stated ==
    [][(Iterates /\ op' # "cp_indirect") =>
          \/ pc' # "decode"
          \/ Len(stack') < Len(stack)
          \/ SameCall /\ CursorAfter >= Cur + 4]_vars

(***************************************************************************)
(* Claims about nesting, register writes by opcode, draw boundaries and    *)
(* the barrier flag (Spec).                                                *)
(***************************************************************************)
\* the indices at which the step reads or writes draws[]: dump_commands() on
\* entry (draws[ib] = 0, after the ib++ of the caller), draw_indx_common()
DrawsIndexed ==
    (IF Len(stack') > Len(stack) THEN {IF stack = <<>> THEN ib ELSE ib + 1} ELSE {})
        \cup (IF Iterates /\ op' \in {"cp_draw_indx", "cp_draw_indx_2"} THEN {ib} ELSE {})

\* C21 as stated: the nesting level ib is within 0..2, the indices of
\* draws[], at every read or write of draws[ib], however deep the nested
\* buffers of a trace go.
C21_NestingInBounds_Stated == [][\A i \in DrawsIndexed : i \in 0..2]_vars

\* the registers either state of the step holds anything about
AllRegs ==
    DOMAIN type0_reg_vals \cup type0_reg_written \cup type0_reg_rewritten
        \cup DOMAIN type0_reg_vals' \cup type0_reg_written' \cup type0_reg_rewritten'

\* the step left the value and both dirty bits of r as they were
RegUntouched(r) ==
    /\ LastvalIn(type0_reg_vals', r) = LastvalIn(type0_reg_vals, r)
    /\ (r \in type0_reg_written') <=> (r \in type0_reg_written)
    /\ (r \in type0_reg_rewritten') <=> (r \in type0_reg_rewritten)

\* C22 as stated: a type0 packet with bit 15 of its header set writes every
\* operand word to the base register, which ends up holding the last word,
\* and changes nothing of any other register; without the bit, operand i
\* goes to register base + i.
C22_SameRegister_Stated ==
    [][(Iterates /\ op' = "type0") =>
          LET k == RegWriteCount(Word(0), "type0")
              base == RegWriteBase(Word(0), "type0")
          IN  IF Lo(Word(0)) >= \h8000
              THEN /\ Stored(base, Word(k))
                   /\ \A r \in AllRegs \ {base} : RegUntouched(r)
              ELSE \A i \in 0..(k - 1) : Stored(base + i, Word(i + 1))]_vars

\* C23 as stated: a register summary reports every register from 0 to the
\* generation's regcnt whose written-since-last-draw bit is set, and in
\* show-all mode every register written; after it no written-since-last-draw
\* bit is set, and the written bits and the register values are as before.
C23_SummaryComplete_Stated ==
    [][(Iterates /\ HasSummary(out')) =>
          /\ \A r \in type0_reg_rewritten \cup (IF allregs THEN type0_reg_written ELSE {}) :
                (r <= regcnt) => (r \in Regs(SummaryLinesOf(out')))
          /\ type0_reg_rewritten' = {}
          /\ type0_reg_written' = type0_reg_written
          /\ type0_reg_vals' = type0_reg_vals]_vars

\* C24 as stated: a type2 header takes up its own dword and no more: the
\* cursor moves on by one dword whatever the packet before it was, and the
\* register file and the counters stay as they were.
C24_NopAdvancesOne_Stated ==
    [][(Iterates /\ op' = "type2") =>
          /\ SameCall
          /\ CursorAfter = Cur + 4
          /\ stack'[Len(stack)].left = Top.left - 1
          /\ RegFileSame
          /\ <<draws, ib, draw_count, vertices>>' = <<draws, ib, draw_count, vertices>>]_vars

\* C25 as stated: every draw-boundary opcode the decoder gets through adds
\* exactly one to draw_count, and no step prints a register summary without
\* adding one to draw_count.
C25_BoundaryCounts_Stated ==
    [][(Iterates /\ pc' # "aborted") =>
          /\ (op' \in BoundaryHandlers) => (draw_count' = draw_count + 1)
          /\ HasSummary(out') => (draw_count' = draw_count + 1)]_vars

\* C26 as stated: CP_DRAW_INDX, CP_DRAW_INDX_2 and CP_DRAW_INDX_OFFSET each
\* add their index count to vertices and one to draws[ib] of the current
\* nesting level.
C26_DrawCounters_Stated ==
    [][(Iterates /\ op' \in DrawHandlers /\ ib \in 0..2) =>
          /\ vertices' = vertices + IndexCount
          /\ draws'[ib] = draws[ib] + 1]_vars

\* the step called the side-effect handler of r, if it has one, with w
HandlerCalled(r, w) ==
    type0_reg_fxn(r) => \E i \in DOMAIN out' : out'[i] = FxnCall(r, w)

\* C27 as stated: CP_SET_CONSTANT of sub-type 4 with bit 31 set stores
\* dwords[2] plus the value of register dwords[1], modulo 2^32, to register
\* (dwords[0] & 0xffff) + 0x2000, sets both its dirty bits and calls its
\* side-effect handler; without bit 31 it stores the operand words to the
\* registers from there on, in order.
C27_SetConstWrite_Stated ==
    [][(Iterates /\ op' = "cp_set_const" /\ Hi(Word(1)) % 16 = 4) =>
          LET dest == Lo(Word(1)) + \h2000
              k == PktDwords(Word(0)) - 2
              src == LastvalIn(type0_reg_vals, Val(Word(2)))
              lo == Lo(Word(3)) + Lo(src)
              sum == <<(Hi(Word(3)) + Hi(src) + (lo \div 65536)) % 65536, lo % 65536>>
          IN  IF Hi(Word(1)) >= \h8000
              THEN Stored(dest, sum) /\ HandlerCalled(dest, sum)
              ELSE \A i \in 0..(k - 1) :
                      Stored(dest + i, Word(i + 2)) /\ HandlerCalled(dest + i, Word(i + 2))]_vars

\* C28 as stated: CP_REG_RMW stores (old value & dwords[1]) | dwords[2] to
\* register dwords[0] & 0xffff, sets both its dirty bits, calls its
\* side-effect handler with the new value, and changes no other register.
C28_RmwWritePath_Stated ==
    [][(Iterates /\ op' = "cp_rmw") =>
          LET r == Lo(Word(1))
              new == Or32(And32(LastvalIn(type0_reg_vals, r), Word(2)), Word(3))
          IN  /\ Stored(r, new)
              /\ HandlerCalled(r, new)
              /\ \A x \in AllRegs \ {r} : RegUntouched(x)]_vars

\* the registers the step printed "NEEDS WFI" about
Flagged ==
    {out'[i].reg : i \in {j \in DOMAIN out' :
                            out'[j].e = "diag" /\ out'[j].msg = "NEEDS WFI"}}

\* C29 as stated: CP_WAIT_FOR_IDLE leaves needs_wfi clear; needs_wfi is
\* raised by draw opcodes only, and a register write or read-modify-write is
\* flagged only while it is set; no register from 0x2000 to 0x23ff is ever
\* flagged.
C29_Barrier_Stated ==
    [][/\ (Iterates /\ op' = "cp_wfi") => ~needs_wfi'
       /\ (needs_wfi' /\ ~needs_wfi) => (Iterates /\ op' \in DrawHandlers)
       /\ (Flagged # {}) => (needs_wfi /\ Iterates)
       /\ \A r \in Flagged : ~((\h2000 <= r) /\ (r <= \h23FF))]_vars

\* C30 as stated: with gpu_id >= 500, CP_EVENT_WRITE of the event BLIT
\* prints the query registers and the register summary, clears the
\* written-since-last-draw bits and adds one to draw_count; with a lower
\* gpu_id, or another or an unknown event, it changes no decoder state.
C30_EventBlit_Stated ==
    [][(Iterates /\ op' = "cp_event_write") =>
          IF (gpu_id >= 500) /\ (rnn_enumname(Val(Word(1))) = "BLIT")
          THEN /\ \A r \in QueryRegs \cap type0_reg_written :
                     \E l \in QueryLinesOf(out') : l.reg = r
               /\ HasSummary(out')
               /\ type0_reg_rewritten' = {}
               /\ draw_count' = draw_count + 1
          ELSE /\ RegFileSame
               /\ ~HasSummary(out')
               /\ <<draws, ib, draw_count, vertices, needs_wfi>>'
                     = <<draws, ib, draw_count, vertices, needs_wfi>>]_vars

\* C31 as stated: the region table does not change while a command stream is
\* decoded; the first RD_GPUADDR section after a decoded command stream, that
\* is, one that finds captured memory read since the table was last emptied,
\* empties the table before it registers the new region, and leaves no
\* earlier region with a host pointer.
C31_TableInvalidated_Stated ==
    [][
       /\ (pc = "decode") => (buffers' = buffers /\ nbuffers' = nbuffers)
       /\ (op' = "RD_GPUADDR" /\ nalloc' = nalloc + 1 /\ mem # <<>>) =>
             /\ nbuffers' = 0
             /\ mem' = <<>>
             /\ \A i \in 0..(nbuffers - 1) : buffers'[i].hostptr = 0
      ]_vars

\* C32 as stated: a texture sampler or constant loop of cp_load_state that
\* stops before num_unit units stops on padding only: every word of the table
\* from the unit it stopped at to the end of the packet is 0.
C32_PaddingOnly_Stated ==
    [][(Iterates /\ op' = "cp_load_state") =>
          \A t \in TexLoops :
              LET first == IF is_64b THEN 4 ELSE 3
                  last == PktDwords(Word(0)) - 1
              IN  (t.loop.iters < t.num_unit) =>
                     \A j \in (first + t.loop.cursor)..last : Word(j) = ZERO]_vars

(***************************************************************************)
(* Claims about the five header predicates together (SpecClassify).        *)
(***************************************************************************)
\* the kinds whose predicate the header satisfies
KindsOf(pkt) ==
    {k \in {"type0", "type4", "type3", "type7", "type2"} :
        \/ (k = "type0" /\ pkt_is_type0(pkt))
        \/ (k = "type4" /\ pkt_is_type4(pkt))
        \/ (k = "type3" /\ pkt_is_type3(pkt))
        \/ (k = "type7" /\ pkt_is_type7(pkt))
        \/ (k = "type2" /\ pkt_is_type2(pkt))}

\* C34: no header satisfies more than one of the five predicates, so the
\* chain of dump_commands() answers the one kind whose predicate holds, in
\* whatever order it tests them, and "bad" when none holds.
C34_KindsExclusive ==
    /\ Cardinality(KindsOf(hdr)) <= 1
    /\ (kind # "none") =>
          IF KindsOf(hdr) = {} THEN kind = "bad" ELSE KindsOf(hdr) = {kind}

\* C34 witness: a header with the type7 tag and right parity bits, which the
\* chain reaches after the type0, type4 and type3 tests, is classified type7
C34_Witness ==
    /\ HdrTag = 7
    /\ ~T7ParityBroken
    /\ (Hi(hdr) \div 256) % 16 = 0
    /\ kind = "type7"

C37_GenerationSelected_Stated ==
    [][
       /\ (op' = "RD_GPU_ID" /\ nalloc' = nalloc + 1) =>
             IF got_gpu_id
             THEN gpu_id' = gpu_id /\ type0_reg' = type0_reg
             ELSE type0_reg' =
                     IF gpu_id' >= 500 THEN "reg_a5xx"
                     ELSE IF gpu_id' >= 400 THEN "reg_a4xx"
                     ELSE IF gpu_id' >= 300 THEN "reg_a3xx" ELSE "reg_a2xx"
       /\ (Iterates /\ ~got_gpu_id) => (type0_reg' \in {"NULL", "reg_a2xx"})
      ]_vars

(***************************************************************************)
(* Claims about the special-register handlers (SpecFxn).                   *)
(***************************************************************************)
\* the side state of a decoder that has had no register write
NoWrites ==
    [vsc |-> [i \in 0..6 |-> [config |-> ZERO, address |-> ZERO, length |-> ZERO]],
     vfd |-> [i \in 0..14 |-> [fetchsize |-> 0, bufstride |-> 0]],
     lo |-> ZERO]

\* the step is a handler call
Calls == fx'.calls = fx.calls + 1

\* the index of the call lies inside the side table of its handler
InTable(c) ==
    IF c.fxn \in {"reg_vsc_pipe_config", "reg_vsc_pipe_data_address",
                  "reg_vsc_pipe_data_length"}
    THEN c.idx \in DOMAIN vsc_pipe_data
    ELSE IF c.fxn \in {"reg_vfd_fetch_instr_0_x", "reg_vfd_fetch_instr_1_x"}
    THEN c.idx \in DOMAIN vfd_fetch_state
    ELSE TRUE

\* the side state of a decoder whose earlier writes recorded, for the unit
\* of the call, what the state before the step holds, and nothing else
Recorded(c) ==
    [vsc |-> IF c.idx \in DOMAIN vsc_pipe_data
             THEN [NoWrites.vsc EXCEPT ![c.idx].address = vsc_pipe_data[c.idx].address]
             ELSE NoWrites.vsc,
     vfd |-> IF c.idx \in DOMAIN vfd_fetch_state
             THEN [NoWrites.vfd EXCEPT ![c.idx].fetchsize = vfd_fetch_state[c.idx].fetchsize]
             ELSE NoWrites.vfd,
     lo |-> gpuaddr_lo]

\* the call, made in a decoder with side state st, resolves and dumps what
\* the step did
SameOutput(c, st) ==
    LET r == fxn(c.fxn, st, c.name, c.val, c.past)
    IN  r.buf = c.buf /\ r.sizedwords = c.sizedwords

\* C33 as stated: a handler call resolves the same address and dumps the same
\* amount of data as the same call in a decoder with the same region table
\* and no earlier register write.
C33_PureSideEffect_Stated == [][Calls => SameOutput(fx', NoWrites)]_vars

\* C33, amended: a handler call with a unit index inside its side table
\* resolves the same address and dumps the same amount of data as the same
\* call in any decoder with the same region table whose earlier writes
\* recorded the same data address (VSC pipe) or fetch size (VFD fetch) for
\* the unit of the call and the same gpuaddr_lo.
C33_SideEffectOfUnit ==
    [][(Calls /\ InTable(fx')) => SameOutput(fx', Recorded(fx'))]_vars

\* C33 witness: reg_vsc_pipe_data_length, called for a unit inside the table
\* whose data address an earlier write set to the region, has dumped two
\* dwords of it
C33_Witness ==
    /\ fx.fxn = "reg_vsc_pipe_data_length"
    /\ fx.idx \in DOMAIN vsc_pipe_data
    /\ fx.idx > 0
    /\ vsc_pipe_data[fx.idx].address = U32(GPU_A)
    /\ fx.buf = HostStride
    /\ fx.sizedwords = 2

\* C36 as stated: the unit index a handler reads from the name of a register
\* of the selected table lies inside the side table it indexes.
C36_IndexInTable_Stated == InTable(fx)

====
